---- MODULE Spec2Model ----
(***************************************************************************)
(* PSI monitor tools of packages/services/Car (tools/psi_monitor).         *)
(*                                                                         *)
(*   Spec      generate_kpis.py: get_kpi_df, i.e. PsiKpi.process_psi_df,   *)
(*             PsiKpi.populate_kpi_df (with _check_valid) and              *)
(*             process_events_df, run on a pressure table psi_df and an    *)
(*             optional event table events_df.                             *)
(*   SpecDump  parse_psi_events.py: parse_psi_dump, run on a dump.         *)
(*   SpecLogcat  parse_psi_events.py: LogcatParser.get_events_df, run on   *)
(*             the lines of a logcat.                                      *)
(*   SpecStats generate_kpi_stats.py: merge_dfs,                           *)
(*             convert_millis_to_secs and get_kpi_stats_df, run on the KPI *)
(*             tables of several runs.                                     *)
(*                                                                         *)
(* Representation.                                                         *)
(*   - Python None is the empty tuple, a present value v is <<v>>.         *)
(*   - An annotation string (event description) is a record of its four    *)
(*     consecutive pieces [head, num, sep, rest]: the text up to the first *)
(*     number, the number (None when the string holds none), the text      *)
(*     between the number and the remainder, and the remainder.  The       *)
(*     regular expressions of generate_kpis.py are matches on the pieces.  *)
(*   - Times are integer milliseconds, PSI values integer percents.        *)
(*   - A float KPI value is the exact rational [num, den].                 *)
(***************************************************************************)
EXTENDS Integers, Sequences, FiniteSets, TLC

VARIABLES
  psi_df,        \* generate_kpis.py: the pressure table given to get_kpi_df
  events_df,     \* generate_kpis.py: the event table given to get_kpi_df, or None
  psi_kpi,       \* the PsiKpi object: a record of its fields
  index,         \* process_psi_df: index of the row being scanned (0-based)
  pos,           \* process_psi_df: position in the row's event_descriptions (1-based)
  prev_psi_value,
  prev_monitor_start_relative_millis,
  kpi_df,        \* the KPI table, a sequence of rows
  filtered_events_df,  \* process_events_df: the rows left by dropna and the > 0 filter
  row_no,        \* process_events_df: position in filtered_events_df (1-based)
  pc,            \* where get_kpi_df is
  dump,          \* parse_psi_events.py: the lines of the dump file
  line_no,       \* parse_psi_dump: the line being parsed (1-based)
  monitor_start_uptime_millis,
  monitor_start_epoch_millis,
  parsed_psi_df, \* parse_psi_dump: its psi_df
  dump_pc,       \* where parse_psi_dump is
  logcat,        \* LogcatParser: the lines of the logcat file
  logcat_monitor_start_epoch_millis,  \* LogcatParser._monitor_start_epoch_millis
  event_counts_dict,  \* LogcatParser._event_counts_dict
  logcat_line_no,     \* get_events_df: the line being parsed (1-based)
  logcat_events_df,   \* get_events_df: its events_df
  logcat_pc,     \* where get_events_df is
  returned_events_df,  \* the tables the calls of get_events_df returned, in order
  kpi_dfs_dict,  \* generate_kpi_stats.py: the KPI tables of the runs, by run id
  merged_df,     \* merge_dfs: the merged table, or None
  run_no,        \* merge_dfs: position in kpi_dfs_dict (1-based)
  kpi_stats_df,  \* get_kpi_stats_df: its kpi_stats_df
  group_no,      \* get_kpi_stats_df: position in the groups (1-based)
  stats_pc       \* where generate_kpi_stats.py is

kpi_vars == <<psi_df, events_df, psi_kpi, index, pos, prev_psi_value,
              prev_monitor_start_relative_millis, kpi_df, filtered_events_df, row_no, pc>>
dump_vars == <<dump, line_no, monitor_start_uptime_millis, monitor_start_epoch_millis,
               parsed_psi_df, dump_pc>>
logcat_vars == <<logcat, logcat_monitor_start_epoch_millis, event_counts_dict,
                 logcat_line_no, logcat_events_df, logcat_pc, returned_events_df>>
stats_vars == <<kpi_dfs_dict, merged_df, run_no, kpi_stats_df, group_no, stats_pc>>
vars == <<psi_df, events_df, psi_kpi, index, pos, prev_psi_value,
          prev_monitor_start_relative_millis, kpi_df, filtered_events_df, row_no, pc,
          dump, line_no, monitor_start_uptime_millis, monitor_start_epoch_millis,
          parsed_psi_df, dump_pc,
          logcat, logcat_monitor_start_epoch_millis, event_counts_dict,
          logcat_line_no, logcat_events_df, logcat_pc, returned_events_df,
          kpi_dfs_dict, merged_df, run_no, kpi_stats_df, group_no, stats_pc>>

----------------------------------------------------------------------------
(* Values *)

None == <<>>
Some(v) == <<v>>
Val(x) == x[1]

\* Fault variant of IsNone: "not x" in place of "x is None", which also takes a
\* recorded time of 0 for an absent one.
IsNoneOrZero(x) == x = None \/ x = Some(0)

\* "x is None"
IsNone(x) == x = None

\* Python truthiness of an optional number: None and 0 are false.
Truthy(x) == x # None /\ Val(x) # 0

Max2(a, b) == IF a >= b THEN a ELSE b

RECURSIVE MaxOf(_)
MaxOf(s) == IF Len(s) = 1 THEN s[1] ELSE Max2(s[1], MaxOf(Tail(s)))

\* An exact rational for a float value.
Rat(n, d) == [num |-> n, den |-> d]
RatEq(a, b) == a.num * b.den = b.num * a.den

----------------------------------------------------------------------------
(* generate_kpis.py: constants and patterns *)

\* An annotation string, by its pieces; num is None or Some(n), n the number read
\* from a run of digits.
Desc(head, num, sep, rest) == [head |-> head, num |-> num, sep |-> sep, rest |-> rest]

PSI_TO_MONITOR == "cpu_some_avg10"
CUJ_COMPLETED_EVENT == Desc("CUJ completed", None, "", "")
PSI_MONITOR_TAG == "psi_monitor"
PSI_EVENT_TYPE == "psi_event"
LOGCAT_EVENT_TYPE == "logcat_event"
LOGCAT_EVENT_UNIT == "Duration millis"

\* The annotation strings the monitor writes.
ExceededDesc(value, type) == Desc("PSI exceeded threshold: ", Some(value), "% ", type)
DroppedDesc(value, type) == Desc("PSI dropped below threshold: ", Some(value), "% ", type)
BaselineDesc(n) == Desc("PSI reached baseline across latest ", Some(n), " ", "entries")

\* A match object: matched, and the named groups (None for a group the pattern
\* does not have).
NoMatch == [matched |-> FALSE, psi_value |-> None, psi_type |-> None, latest_psi_entries |-> None]

\* ^PSI exceeded threshold: (?P<psi_value>\d+)%\s+(?P<psi_type>.*)$
PSI_EXCEEDED_THRESHOLD_RE(d) ==
  IF d.head = "PSI exceeded threshold: " /\ d.num # None /\ d.sep = "% "
  THEN [matched |-> TRUE, psi_value |-> d.num, psi_type |-> Some(d.rest),
        latest_psi_entries |-> None]
  ELSE NoMatch

\* ^PSI dropped below threshold: (?P<psi_value>\d+)%\s+(?P<psi_type>.*)$
PSI_DROPPED_BELOW_THRESHOLD_RE(d) ==
  IF d.head = "PSI dropped below threshold: " /\ d.num # None /\ d.sep = "% "
  THEN [matched |-> TRUE, psi_value |-> d.num, psi_type |-> Some(d.rest),
        latest_psi_entries |-> None]
  ELSE NoMatch

\* ^PSI reached baseline across latest\s+(?P<latest_psi_entries>\d+)\s+entries$
PSI_REACHED_BASELINE_RE(d) ==
  IF /\ d.head = "PSI reached baseline across latest " /\ d.num # None
     /\ d.sep = " " /\ d.rest = "entries"
  THEN [matched |-> TRUE, psi_value |-> None, psi_type |-> None,
        latest_psi_entries |-> d.num]
  ELSE NoMatch

----------------------------------------------------------------------------
(* PsiKpi *)

\* PsiKpi.__init__.  _reached_baseline_total_duration_millis is no attribute of
\* a new object: it is absent (None here) until process_psi_df assigns it.
PsiKpiInit ==
  [cuj_completed_millis |-> None,
   exceeded_threshold_millis |-> None,
   exceeded_threshold_value |-> None,
   exceeded_threshold_type |-> None,
   dropped_below_threshold_millis |-> None,
   dropped_below_threshold_value |-> None,
   dropped_below_threshold_type |-> None,
   reached_baseline_millis |-> None,
   reached_baseline_latest_psi_entries |-> None,
   reached_baseline_total_duration_millis |-> None,
   max_psi_value |-> 0,
   max_psi_value_after_dropped_below_threshold |-> 0,
   psi_to_monitor |-> PSI_TO_MONITOR,
   total_duration_above_80p_threshold_millis |-> 0,
   total_duration_above_50p_threshold_millis |-> 0,
   total_duration_above_30p_threshold_millis |-> 0]

\* PsiKpi._do_match_exceeded_threshold_millis: the object after a match.
DoMatchExceededThresholdMillis(kpi, monitor_start_relative_millis, m) ==
  [kpi EXCEPT !.exceeded_threshold_millis = Some(monitor_start_relative_millis),
              !.exceeded_threshold_value = m.psi_value,
              !.exceeded_threshold_type = m.psi_type]

\* PsiKpi._do_match_dropped_below_threshold_millis: the object after a match.
DoMatchDroppedBelowThresholdMillis(kpi, monitor_start_relative_millis, m) ==
  [kpi EXCEPT !.dropped_below_threshold_millis = Some(monitor_start_relative_millis),
              !.dropped_below_threshold_value = m.psi_value,
              !.dropped_below_threshold_type = m.psi_type]

\* Fault variants of the comparisons of PsiKpi._check_valid: the dropped value
\* compared with itself, "exceeded > dropped", and "duration < 0".
PsiValueMismatchSelf(dropped_value, exceeded_value) == dropped_value # dropped_value
ExceededAfterDropped(exceeded_millis, dropped_millis) == exceeded_millis > dropped_millis
BaselineDurationNegative(duration_millis) == duration_millis < 0

\* The comparisons of PsiKpi._check_valid, lines 73, 76, 79, 82, 85 and 88.
PsiTypeMismatch(dropped_type, exceeded_type) == dropped_type # exceeded_type
PsiValueMismatch(dropped_value, exceeded_value) == dropped_value # exceeded_value
ExceededNotBeforeDropped(exceeded_millis, dropped_millis) == exceeded_millis >= dropped_millis
\* Fault variant of CujAfter: the time of the CUJ is compared with nothing.
CujNeverAfter(cuj_millis, other_millis) == FALSE

CujAfter(cuj_millis, other_millis) == cuj_millis > other_millis
BaselineDurationNotPositive(duration_millis) == duration_millis <= 0

\* PsiKpi._check_valid: the ValueError it raises, "" when it returns.
CheckValid(kpi) ==
  IF kpi.cuj_completed_millis = None THEN "CUJ completed event not found"
  ELSE IF kpi.exceeded_threshold_millis = None
    THEN "PSI exceeded threshold event not found"
  ELSE IF kpi.dropped_below_threshold_millis = None
    THEN "PSI dropped below threshold event not found"
  ELSE IF kpi.reached_baseline_millis = None THEN "PSI reached baseline event not found"
  ELSE IF PsiTypeMismatch(kpi.dropped_below_threshold_type, kpi.exceeded_threshold_type)
    THEN "PSI threshold type mismatch"
  ELSE IF PsiValueMismatch(kpi.dropped_below_threshold_value, kpi.exceeded_threshold_value)
    THEN "PSI threshold value mismatch"
  ELSE IF ExceededNotBeforeDropped(Val(kpi.exceeded_threshold_millis),
                                   Val(kpi.dropped_below_threshold_millis))
    THEN "PSI exceeded threshold millis >= dropped below threshold millis"
  ELSE IF CujAfter(Val(kpi.cuj_completed_millis), Val(kpi.exceeded_threshold_millis))
    THEN "CUJ completed millis > exceeded threshold millis"
  ELSE IF CujAfter(Val(kpi.cuj_completed_millis), Val(kpi.reached_baseline_millis))
    THEN "CUJ completed millis > reached baseline millis"
  ELSE IF BaselineDurationNotPositive(Val(kpi.reached_baseline_total_duration_millis))
    THEN "Time taken to reach PSI baseline <= 0"
  ELSE ""

----------------------------------------------------------------------------
(* PsiKpi.process_psi_df *)

Row == psi_df[index + 1]
EventDescriptions == Row.event_descriptions
EventDescription == EventDescriptions[pos]

\* The monitored column of the table.
PsiColumn(df) == [i \in 1..Len(df) |-> df[i].cpu_some_avg10]

\* Fault variant of AccumulateDurations: a polling interval counts for a band
\* only when the row that ends it is in the band.
AccumulateDurationsOfRow(kpi, psi_value, prev_value, cur_polling_duration_millis) ==
  [kpi EXCEPT
    !.total_duration_above_80p_threshold_millis =
       IF psi_value >= 80 THEN @ + cur_polling_duration_millis ELSE @,
    !.total_duration_above_50p_threshold_millis =
       IF psi_value >= 50 THEN @ + cur_polling_duration_millis ELSE @,
    !.total_duration_above_30p_threshold_millis =
       IF psi_value >= 30 THEN @ + cur_polling_duration_millis ELSE @]

\* Lines 106-113: the exposure accumulators after one row.
AccumulateDurations(kpi, psi_value, prev_value, cur_polling_duration_millis) ==
  [kpi EXCEPT
    !.total_duration_above_80p_threshold_millis =
       IF psi_value >= 80 \/ prev_value >= 80 THEN @ + cur_polling_duration_millis ELSE @,
    !.total_duration_above_50p_threshold_millis =
       IF psi_value >= 50 \/ prev_value >= 50 THEN @ + cur_polling_duration_millis ELSE @,
    !.total_duration_above_30p_threshold_millis =
       IF psi_value >= 30 \/ prev_value >= 30 THEN @ + cur_polling_duration_millis ELSE @]

\* Lines 116-118, run for every annotation before it is matched.
UpdateMaxAfterDroppedBelow(kpi, psi_value) ==
  IF Truthy(kpi.dropped_below_threshold_millis)
  THEN [kpi EXCEPT !.max_psi_value_after_dropped_below_threshold = Max2(@, psi_value)]
  ELSE kpi

\* The conditions of lines 120, 124, 128 and 133-135, each reached only when the
\* ones before it are false.
TakesCujCompleted(kpi, d) ==
  IsNone(kpi.cuj_completed_millis) /\ d = CUJ_COMPLETED_EVENT

\* Fault variant of TakesExceededThreshold: the threshold is looked for only
\* once the CUJ completed.
TakesExceededThresholdAfterCuj(kpi, d) ==
  /\ ~TakesCujCompleted(kpi, d)
  /\ ~IsNone(kpi.cuj_completed_millis)
  /\ IsNone(kpi.exceeded_threshold_millis) /\ PSI_EXCEEDED_THRESHOLD_RE(d).matched

TakesExceededThreshold(kpi, d) ==
  /\ ~TakesCujCompleted(kpi, d)
  /\ IsNone(kpi.exceeded_threshold_millis) /\ PSI_EXCEEDED_THRESHOLD_RE(d).matched

TakesDroppedBelowThreshold(kpi, d) ==
  /\ ~TakesCujCompleted(kpi, d) /\ ~TakesExceededThreshold(kpi, d)
  /\ IsNone(kpi.dropped_below_threshold_millis) /\ PSI_DROPPED_BELOW_THRESHOLD_RE(d).matched

TakesReachedBaseline(kpi, d) ==
  /\ ~TakesCujCompleted(kpi, d) /\ ~TakesExceededThreshold(kpi, d)
  /\ ~TakesDroppedBelowThreshold(kpi, d)
  /\ IsNone(kpi.reached_baseline_millis) /\ PSI_REACHED_BASELINE_RE(d).matched

\* Fault variant of BaselineWindowTooLarge: ">=" in place of ">".
BaselineWindowTooLargeOrEqual(prev_entries, idx) == prev_entries >= idx

\* Line 141.
BaselineWindowTooLarge(prev_entries, idx) == prev_entries > idx

\* Fault variant of BaselineTotalDurationMillis: the window is the last
\* polling interval, whatever the count of entries.
BaselineLastIntervalMillis(df, idx, prev_entries, reached_baseline_millis) ==
  reached_baseline_millis - df[IF idx = 0 THEN 1 ELSE idx].monitor_start_relative_millis

\* Lines 144-145: this row's time minus that of the row prev_entries before it.
BaselineTotalDurationMillis(df, idx, prev_entries, reached_baseline_millis) ==
  reached_baseline_millis - df[idx - prev_entries + 1].monitor_start_relative_millis

\* Lines 94-95.
ProcessPsiDfEmpty ==
  /\ pc = "process_psi_df"
  /\ psi_df = <<>>
  /\ pc' = "populate_kpi_df"
  /\ UNCHANGED <<psi_df, events_df, psi_kpi, index, pos, prev_psi_value,
                 prev_monitor_start_relative_millis, kpi_df, filtered_events_df, row_no>>
  /\ UNCHANGED <<dump_vars, logcat_vars, stats_vars>>

\* Lines 96-98.
ProcessPsiDfBegin ==
  /\ pc = "process_psi_df"
  /\ psi_df # <<>>
  /\ psi_kpi' = [psi_kpi EXCEPT !.max_psi_value = MaxOf(PsiColumn(psi_df))]
  /\ prev_psi_value' = 0
  /\ prev_monitor_start_relative_millis' = 0
  /\ index' = 0
  /\ pc' = "row"
  /\ UNCHANGED <<psi_df, events_df, pos, kpi_df, filtered_events_df, row_no>>
  /\ UNCHANGED <<dump_vars, logcat_vars, stats_vars>>

\* Fault variant of ScanRow: the polling duration of a row is its relative
\* time, the time of the row before it not taken off.
ScanRowSinceStart ==
  /\ pc = "row"
  /\ psi_kpi' = AccumulateDurations(psi_kpi, Row.cpu_some_avg10, prev_psi_value,
                  Row.monitor_start_relative_millis)
  /\ pos' = 1
  /\ pc' = "event"
  /\ UNCHANGED <<psi_df, events_df, index, prev_psi_value,
                 prev_monitor_start_relative_millis, kpi_df, filtered_events_df, row_no>>
  /\ UNCHANGED <<dump_vars, logcat_vars, stats_vars>>

\* Lines 99-113: one row is taken and the exposure accumulators updated.
ScanRow ==
  /\ pc = "row"
  /\ psi_kpi' = AccumulateDurations(psi_kpi, Row.cpu_some_avg10, prev_psi_value,
                  Row.monitor_start_relative_millis - prev_monitor_start_relative_millis)
  /\ pos' = 1
  /\ pc' = "event"
  /\ UNCHANGED <<psi_df, events_df, index, prev_psi_value,
                 prev_monitor_start_relative_millis, kpi_df, filtered_events_df, row_no>>
  /\ UNCHANGED <<dump_vars, logcat_vars, stats_vars>>

ScanFrame ==
  /\ UNCHANGED <<psi_df, events_df, index, prev_psi_value,
                 prev_monitor_start_relative_millis, kpi_df, filtered_events_df, row_no>>
  /\ UNCHANGED <<dump_vars, logcat_vars, stats_vars>>

\* Lines 115-122.
MatchCujCompleted ==
  /\ pc = "event" /\ pos <= Len(EventDescriptions)
  /\ LET kpi == UpdateMaxAfterDroppedBelow(psi_kpi, Row.cpu_some_avg10) IN
       /\ TakesCujCompleted(kpi, EventDescription)
       /\ psi_kpi' = [kpi EXCEPT !.cuj_completed_millis =
                                    Some(Row.monitor_start_relative_millis)]
  /\ pos' = pos + 1
  /\ pc' = "event"
  /\ ScanFrame

\* Lines 115-118, 124-126.
MatchExceededThreshold ==
  /\ pc = "event" /\ pos <= Len(EventDescriptions)
  /\ LET kpi == UpdateMaxAfterDroppedBelow(psi_kpi, Row.cpu_some_avg10) IN
       /\ TakesExceededThreshold(kpi, EventDescription)
       /\ psi_kpi' = DoMatchExceededThresholdMillis(kpi, Row.monitor_start_relative_millis,
                        PSI_EXCEEDED_THRESHOLD_RE(EventDescription))
  /\ pos' = pos + 1
  /\ pc' = "event"
  /\ ScanFrame

\* Lines 115-118, 128-131.
MatchDroppedBelowThreshold ==
  /\ pc = "event" /\ pos <= Len(EventDescriptions)
  /\ LET kpi == UpdateMaxAfterDroppedBelow(psi_kpi, Row.cpu_some_avg10) IN
       /\ TakesDroppedBelowThreshold(kpi, EventDescription)
       /\ psi_kpi' = DoMatchDroppedBelowThresholdMillis(kpi,
                        Row.monitor_start_relative_millis,
                        PSI_DROPPED_BELOW_THRESHOLD_RE(EventDescription))
  /\ pos' = pos + 1
  /\ pc' = "event"
  /\ ScanFrame

\* Lines 115-118, 133-145, the window within the table.
MatchReachedBaseline ==
  /\ pc = "event" /\ pos <= Len(EventDescriptions)
  /\ LET kpi == UpdateMaxAfterDroppedBelow(psi_kpi, Row.cpu_some_avg10)
         prev_entries == Val(PSI_REACHED_BASELINE_RE(EventDescription).latest_psi_entries)
     IN
       /\ TakesReachedBaseline(kpi, EventDescription)
       /\ ~BaselineWindowTooLarge(prev_entries, index)
       /\ psi_kpi' = [kpi EXCEPT
            !.reached_baseline_millis = Some(Row.monitor_start_relative_millis),
            !.reached_baseline_latest_psi_entries = Some(prev_entries),
            !.reached_baseline_total_duration_millis =
               Some(BaselineTotalDurationMillis(psi_df, index, prev_entries,
                                                Row.monitor_start_relative_millis))]
  /\ pos' = pos + 1
  /\ pc' = "event"
  /\ ScanFrame

\* Lines 115-118, 133-143: the window reaches before the first row, ValueError.
ReachedBaselineRaise ==
  /\ pc = "event" /\ pos <= Len(EventDescriptions)
  /\ LET kpi == UpdateMaxAfterDroppedBelow(psi_kpi, Row.cpu_some_avg10)
         prev_entries == Val(PSI_REACHED_BASELINE_RE(EventDescription).latest_psi_entries)
     IN
       /\ TakesReachedBaseline(kpi, EventDescription)
       /\ BaselineWindowTooLarge(prev_entries, index)
       /\ psi_kpi' = [kpi EXCEPT
            !.reached_baseline_millis = Some(Row.monitor_start_relative_millis),
            !.reached_baseline_latest_psi_entries = Some(prev_entries)]
  /\ pc' = "error"
  /\ UNCHANGED pos
  /\ ScanFrame

\* Lines 115-118 and no branch taken: the "continue" of line 136, or the end of
\* the loop body when the baseline is already recorded.
SkipEventDescription ==
  /\ pc = "event" /\ pos <= Len(EventDescriptions)
  /\ LET kpi == UpdateMaxAfterDroppedBelow(psi_kpi, Row.cpu_some_avg10) IN
       /\ ~TakesCujCompleted(kpi, EventDescription)
       /\ ~TakesExceededThreshold(kpi, EventDescription)
       /\ ~TakesDroppedBelowThreshold(kpi, EventDescription)
       /\ ~TakesReachedBaseline(kpi, EventDescription)
       /\ psi_kpi' = kpi
  /\ pos' = pos + 1
  /\ pc' = "event"
  /\ ScanFrame

\* Lines 147-148, and the end of the loop of line 99 after the last row.
EndRow ==
  /\ pc = "event" /\ pos > Len(EventDescriptions)
  /\ prev_psi_value' = Row.cpu_some_avg10
  /\ prev_monitor_start_relative_millis' = Row.monitor_start_relative_millis
  /\ index' = index + 1
  /\ pc' = IF index + 1 < Len(psi_df) THEN "row" ELSE "populate_kpi_df"
  /\ UNCHANGED <<psi_df, events_df, psi_kpi, pos, kpi_df, filtered_events_df, row_no>>
  /\ UNCHANGED <<dump_vars, logcat_vars, stats_vars>>

----------------------------------------------------------------------------
(* PsiKpi.populate_kpi_df, process_events_df, get_kpi_df *)

\* A KPI name: the text with its '{}' places, and what format() puts in them
\* (None for a place the text does not have).
Fmt(text, psi_type, psi_threshold) ==
  [text |-> text, psi_type |-> psi_type, psi_threshold |-> psi_threshold]

KpiRow(event, type, tag, value, unit) ==
  [Event |-> event, Type |-> type, Tag |-> tag, Value |-> value, Unit |-> unit]

\* x / 1000.0
MillisToSecs(millis) == Rat(millis, 1000)

\* Fault variant of TimeAboveThresholdMillis: the time is counted from the
\* completion of the CUJ.
TimeAboveThresholdMillisFromCuj(kpi) ==
  Val(kpi.dropped_below_threshold_millis) - Val(kpi.cuj_completed_millis)

\* Lines 169-172: the value of the time-above-threshold row, in milliseconds.
TimeAboveThresholdMillis(kpi) ==
  Val(kpi.dropped_below_threshold_millis) - Val(kpi.exceeded_threshold_millis)

\* Lines 153-188: the eleven rows populate_kpi_df appends, in its order.
KpiRows(kpi) ==
  LET psi_type == kpi.dropped_below_threshold_type
      psi_threshold == kpi.dropped_below_threshold_value
  IN <<
    KpiRow(Fmt("CUJ completed", None, None), PSI_EVENT_TYPE, PSI_MONITOR_TAG,
           MillisToSecs(Val(kpi.cuj_completed_millis)), "Seconds since monitor start"),
    KpiRow(Fmt("Time taken to reach '{}' PSI baseline (including baseline calculation duration)",
               psi_type, None), PSI_EVENT_TYPE, PSI_MONITOR_TAG,
           MillisToSecs(Val(kpi.reached_baseline_millis) - Val(kpi.cuj_completed_millis)),
           "Duration seconds"),
    KpiRow(Fmt("Total number of '{}' PSI entries used in baseline calculation", psi_type, None),
           PSI_EVENT_TYPE, PSI_MONITOR_TAG,
           Rat(Val(kpi.reached_baseline_latest_psi_entries), 1), "Number of entries"),
    KpiRow(Fmt("Baseline calculation duration", None, None), PSI_MONITOR_TAG, PSI_EVENT_TYPE,
           MillisToSecs(Val(kpi.reached_baseline_total_duration_millis)), "Duration seconds"),
    KpiRow(Fmt("Max '{}' PSI value", psi_type, None), PSI_EVENT_TYPE, PSI_MONITOR_TAG,
           Rat(kpi.max_psi_value, 1), "Percent"),
    KpiRow(Fmt("Time spent above the '{}' PSI threshold {}%", psi_type, psi_threshold),
           PSI_EVENT_TYPE, PSI_MONITOR_TAG,
           MillisToSecs(TimeAboveThresholdMillis(kpi)), "Duration seconds"),
    KpiRow(Fmt("Time taken to drop below the '{}' PSI threshold", psi_type, None),
           PSI_EVENT_TYPE, PSI_MONITOR_TAG,
           MillisToSecs(Val(kpi.dropped_below_threshold_millis)
                        - Val(kpi.cuj_completed_millis)), "Duration seconds"),
    KpiRow(Fmt("Max '{}' PSI value after dropped below threshold", psi_type, None),
           PSI_EVENT_TYPE, PSI_MONITOR_TAG,
           Rat(kpi.max_psi_value_after_dropped_below_threshold, 1), "Percent"),
    KpiRow(Fmt("Total time spent above the '{}' PSI threshold 80%", psi_type, None),
           PSI_EVENT_TYPE, PSI_MONITOR_TAG,
           MillisToSecs(kpi.total_duration_above_80p_threshold_millis), "Duration seconds"),
    KpiRow(Fmt("Total time spent above the '{}' PSI threshold 50%", psi_type, None),
           PSI_EVENT_TYPE, PSI_MONITOR_TAG,
           MillisToSecs(kpi.total_duration_above_50p_threshold_millis), "Duration seconds"),
    KpiRow(Fmt("Total time spent above the '{}' PSI threshold 30%", psi_type, None),
           PSI_EVENT_TYPE, PSI_MONITOR_TAG,
           MillisToSecs(kpi.total_duration_above_30p_threshold_millis), "Duration seconds")
  >>

\* Line 152, _check_valid raising: populate_kpi_df ends before its first append.
CheckValidRaise ==
  /\ pc = "populate_kpi_df"
  /\ CheckValid(psi_kpi) # ""
  /\ pc' = "error"
  /\ UNCHANGED <<psi_df, events_df, psi_kpi, index, pos, prev_psi_value,
                 prev_monitor_start_relative_millis, kpi_df, filtered_events_df, row_no>>
  /\ UNCHANGED <<dump_vars, logcat_vars, stats_vars>>

\* Line 152, _check_valid returning.
CheckValidReturn ==
  /\ pc = "populate_kpi_df"
  /\ CheckValid(psi_kpi) = ""
  /\ pc' = "append_kpi_rows"
  /\ UNCHANGED <<psi_df, events_df, psi_kpi, index, pos, prev_psi_value,
                 prev_monitor_start_relative_millis, kpi_df, filtered_events_df, row_no>>
  /\ UNCHANGED <<dump_vars, logcat_vars, stats_vars>>

\* Lines 155-189: one "kpi_df.loc[len(kpi_df)] = ..." per step, then the return
\* to get_kpi_df.
AppendKpiRow ==
  /\ pc = "append_kpi_rows"
  /\ kpi_df' = Append(kpi_df, KpiRows(psi_kpi)[Len(kpi_df) + 1])
  /\ pc' = IF Len(kpi_df) + 1 < Len(KpiRows(psi_kpi))
           THEN "append_kpi_rows" ELSE "process_events_df"
  /\ UNCHANGED <<psi_df, events_df, psi_kpi, index, pos, prev_psi_value,
                 prev_monitor_start_relative_millis, filtered_events_df, row_no>>
  /\ UNCHANGED <<dump_vars, logcat_vars, stats_vars>>

\* An event-table row.
EventRow(key, tag, duration) ==
  [event_key |-> key, event_tag |-> tag, duration_value |-> duration]

\* Fault variant of DurationPositive: ">=" in place of ">".
DurationPositiveOrZero(duration_value) == duration_value >= 0

\* Line 196.
DurationPositive(duration_value) == duration_value > 0

\* Lines 195-196: dropna on event_key and duration_value, then duration_value > 0.
FilterEvents(df) ==
  SelectSeq(SelectSeq(df, LAMBDA r : r.event_key # None /\ r.duration_value # None),
            LAMBDA r : DurationPositive(Val(r.duration_value)))

\* get_kpi_df, lines 211-212.
GetKpiDfNoEvents ==
  /\ pc = "process_events_df"
  /\ events_df = None
  /\ pc' = "done"
  /\ UNCHANGED <<psi_df, events_df, psi_kpi, index, pos, prev_psi_value,
                 prev_monitor_start_relative_millis, kpi_df, filtered_events_df, row_no>>
  /\ UNCHANGED <<dump_vars, logcat_vars, stats_vars>>

\* process_events_df, lines 193-194.
ProcessEventsDfEmpty ==
  /\ pc = "process_events_df"
  /\ events_df # None /\ Val(events_df) = <<>>
  /\ pc' = "done"
  /\ UNCHANGED <<psi_df, events_df, psi_kpi, index, pos, prev_psi_value,
                 prev_monitor_start_relative_millis, kpi_df, filtered_events_df, row_no>>
  /\ UNCHANGED <<dump_vars, logcat_vars, stats_vars>>

\* process_events_df, lines 195-196.
ProcessEventsDfFilter ==
  /\ pc = "process_events_df"
  /\ events_df # None /\ Val(events_df) # <<>>
  /\ filtered_events_df' = FilterEvents(Val(events_df))
  /\ row_no' = 1
  /\ pc' = "append_events"
  /\ UNCHANGED <<psi_df, events_df, psi_kpi, index, pos, prev_psi_value,
                 prev_monitor_start_relative_millis, kpi_df>>
  /\ UNCHANGED <<dump_vars, logcat_vars, stats_vars>>

\* process_events_df, lines 197-201: one filtered row.
AppendEvent ==
  /\ pc = "append_events"
  /\ row_no <= Len(filtered_events_df)
  /\ LET row == filtered_events_df[row_no] IN
       kpi_df' = IF row.event_key = None
                 THEN kpi_df
                 ELSE Append(kpi_df,
                        KpiRow(Fmt(Val(row.event_key), None, None), LOGCAT_EVENT_TYPE,
                               row.event_tag, Rat(Val(row.duration_value), 1),
                               LOGCAT_EVENT_UNIT))
  /\ row_no' = row_no + 1
  /\ UNCHANGED <<psi_df, events_df, psi_kpi, index, pos, prev_psi_value,
                 prev_monitor_start_relative_millis, filtered_events_df, pc>>
  /\ UNCHANGED <<dump_vars, logcat_vars, stats_vars>>

\* process_events_df, line 202.
ProcessEventsDfReturn ==
  /\ pc = "append_events"
  /\ row_no > Len(filtered_events_df)
  /\ pc' = "done"
  /\ UNCHANGED <<psi_df, events_df, psi_kpi, index, pos, prev_psi_value,
                 prev_monitor_start_relative_millis, kpi_df, filtered_events_df, row_no>>
  /\ UNCHANGED <<dump_vars, logcat_vars, stats_vars>>

----------------------------------------------------------------------------
(* The tables get_kpi_df is run on *)

\* Most rows of a table, and most annotations of a whole table.
MaxRows == 3
MaxDescriptions == 3
\* Most rows of an event table.
MaxEventRows == 3

PsiRow(millis, psi_value, descriptions) ==
  [monitor_start_relative_millis |-> millis, cpu_some_avg10 |-> psi_value,
   event_descriptions |-> descriptions]

RECURSIVE ListsOfLen(_, _)
ListsOfLen(A, n) ==
  IF n = 0 THEN {<<>>} ELSE {<<a>> \o l : a \in A, l \in ListsOfLen(A, n - 1)}

\* The ways to lay k annotations, kept in their order, on n rows: the row of each.
RowAssignments(k, n) ==
  {f \in [1..k -> 1..n] : \A j \in 1..(k - 1) : f[j] <= f[j + 1]}

\* The annotations of row i: those of flat (indices into the tuple A) laid on it.
DescriptionsOfRow(A, flat, rows, i) ==
  LET on == {j \in DOMAIN flat : rows[j] = i}
      first == CHOOSE j \in on : \A m \in on : j <= m
  IN [m \in 1..Cardinality(on) |-> A[flat[first + m - 1]]]

\* The numeric columns: a poll every 500 ms ("steady"), or two polls on every
\* timestamp ("paired"); the monitored value cycles through the bands.
Skeletons == {"steady", "paired"}
SkeletonMillis(skeleton, i) ==
  IF skeleton = "steady" THEN (i - 1) * 500 ELSE ((i - 1) \div 2) * 500
SkeletonPsi(i) == <<10, 85, 55, 35>>[((i - 1) % 4) + 1]

\* The table of n rows with the annotations flat laid on its rows.
TableOf(skeleton, A, n, flat, rows) ==
  [i \in 1..n |->
     PsiRow(SkeletonMillis(skeleton, i), SkeletonPsi(i),
            DescriptionsOfRow(A, flat, rows, i))]

\* The four milestone annotations, one form each.
MilestoneDescriptions ==
  <<CUJ_COMPLETED_EVENT, ExceededDesc(80, "cpu:some"), DroppedDesc(80, "cpu:some"),
    BaselineDesc(1)>>

\* Forms of the milestone annotations with differing captures.
ExceededForms == {ExceededDesc(80, "cpu:some"), ExceededDesc(50, "io:some")}
DroppedForms ==
  {DroppedDesc(80, "cpu:some"), DroppedDesc(50, "cpu:some"), DroppedDesc(80, "io:some")}
BaselineForms == {BaselineDesc(0), BaselineDesc(1), BaselineDesc(2)}

\* Those forms, and two strings no pattern matches: no whitespace after the
\* '%', and a marker with a trailing blank.
VariedDescriptions ==
  <<CUJ_COMPLETED_EVENT,
    ExceededDesc(80, "cpu:some"), ExceededDesc(50, "io:some"),
    DroppedDesc(80, "cpu:some"), DroppedDesc(50, "cpu:some"), DroppedDesc(80, "io:some"),
    BaselineDesc(0), BaselineDesc(1), BaselineDesc(2),
    Desc("PSI exceeded threshold: ", Some(80), "%", "cpu:some"),
    Desc("CUJ completed ", None, "", "")>>

\* Long tables over the milestone annotations, in every order, with repeats.
IsMilestoneTable(df) ==
  \E n \in 0..MaxRows, k \in 0..MaxDescriptions :
    \E flat \in [1..k -> 1..Len(MilestoneDescriptions)], rows \in RowAssignments(k, n) :
      df = TableOf("steady", MilestoneDescriptions, n, flat, rows)

\* Short tables over the varied annotations.
IsVariedTable(df) ==
  \E n \in 1..(MaxRows - 1), k \in 0..(MaxDescriptions - 1), sk \in Skeletons :
    \E flat \in [1..k -> 1..Len(VariedDescriptions)], rows \in RowAssignments(k, n) :
      df = TableOf(sk, VariedDescriptions, n, flat, rows)

\* Tables with the four milestones in order, each once, in every form.
IsCaptureTable(df) ==
  \E n \in 1..MaxRows, sk \in Skeletons, e \in ExceededForms, d \in DroppedForms,
     b \in BaselineForms :
    \E rows \in RowAssignments(4, n) :
      df = TableOf(sk, <<CUJ_COMPLETED_EVENT, e, d, b>>, n, <<1, 2, 3, 4>>, rows)

\* A run that passes validation.
ValidTable ==
  <<PsiRow(0, 10, <<>>),
    PsiRow(500, 85, <<CUJ_COMPLETED_EVENT, ExceededDesc(80, "cpu:some")>>),
    PsiRow(1000, 55, <<DroppedDesc(80, "cpu:some")>>),
    PsiRow(1500, 35, <<BaselineDesc(2)>>)>>

\* Event-table rows: two that qualify, and one each without a key, without a
\* duration, and with duration 0.
EventRows ==
  {EventRow(Some("Displayed a for user 0"), "ActivityTaskManager", Some(1200)),
   EventRow(Some("SystemServer event b"), "SystemServerTimingAsync", Some(47)),
   EventRow(None, "ActivityTaskManager", Some(5)),
   EventRow(Some("SystemServer event b"), "SystemServerTimingAsync", None),
   EventRow(Some("Displayed a for user 0"), "ActivityTaskManager", Some(0))}

EventTables == UNION {ListsOfLen(EventRows, n) : n \in 0..MaxEventRows}

\* The objects and locals of get_kpi_df before psi_kpi.process_psi_df(psi_df).
GetKpiDfStart ==
  /\ psi_kpi = PsiKpiInit
  /\ index = 0
  /\ pos = 1
  /\ prev_psi_value = 0
  /\ prev_monitor_start_relative_millis = 0
  /\ kpi_df = <<>>
  /\ filtered_events_df = <<>>
  /\ row_no = 1
  /\ pc = "process_psi_df"

DumpIdle ==
  /\ dump = <<>>
  /\ line_no = 1
  /\ monitor_start_uptime_millis = None
  /\ monitor_start_epoch_millis = None
  /\ parsed_psi_df = <<>>
  /\ dump_pc = "idle"

InitTables ==
  /\ IsMilestoneTable(psi_df) \/ IsVariedTable(psi_df) \/ IsCaptureTable(psi_df)
  /\ events_df = None

\* A run that fails the check of line 86 alone: the baseline is reached before
\* the CUJ completes.
BaselineFirstTable ==
  <<PsiRow(0, 10, <<>>),
    PsiRow(500, 85, <<BaselineDesc(1)>>),
    PsiRow(1000, 55, <<CUJ_COMPLETED_EVENT, ExceededDesc(80, "cpu:some")>>),
    PsiRow(1500, 35, <<DroppedDesc(80, "cpu:some")>>)>>

InitEvents ==
  /\ psi_df \in {ValidTable, BaselineFirstTable}
  /\ events_df \in {Some(t) : t \in EventTables}

\* Runs with the CUJ completed at 1000 ms, the threshold 80% cpu:some exceeded at
\* 1500 ms and dropped below at 3500 ms, and the baseline reached across the
\* latest 2 entries at 4000 ms, two rows after the row of 3800 ms; with or
\* without a first row at 0 ms and an annotation that is no milestone, and
\* with any time from 3800 to 4000 ms and any monitored values in between.
ExampleTables ==
  {(IF lead THEN <<PsiRow(0, 10, <<>>)>> ELSE <<>>) \o
   <<PsiRow(1000, 35, <<CUJ_COMPLETED_EVENT>>),
     PsiRow(1500, p[1], <<ExceededDesc(80, "cpu:some")>>),
     PsiRow(3500, p[2], <<DroppedDesc(80, "cpu:some")>>),
     PsiRow(3800, 55, IF noted THEN <<Desc("CUJ completed ", None, "", "")>> ELSE <<>>),
     PsiRow(mid, p[3], <<>>),
     PsiRow(4000, 10, <<BaselineDesc(2)>>)>> :
   lead \in BOOLEAN, noted \in BOOLEAN, mid \in {3800, 3900, 4000},
   p \in [1..3 -> {10, 85}]}

\* Runs that pass validation with the baseline reached, across the latest 1 or
\* 2 entries, on the row before the row of the drop below the threshold, at an
\* earlier time or at the same.
BaselineEarlyTables ==
  {<<PsiRow(0, 10, <<>>),
     PsiRow(500, 85, <<CUJ_COMPLETED_EVENT, ExceededDesc(80, "cpu:some")>>),
     PsiRow(1000, p, <<BaselineDesc(n)>>),
     PsiRow(dropped, 35, <<DroppedDesc(80, "cpu:some")>>)>> :
   n \in {1, 2}, p \in {55, 85}, dropped \in {1000, 1500}}

InitExample ==
  /\ psi_df \in ExampleTables \cup BaselineEarlyTables
  /\ events_df = None

KpiIdle ==
  /\ psi_df = <<>>
  /\ events_df = None
  /\ psi_kpi = PsiKpiInit
  /\ index = 0
  /\ pos = 1
  /\ prev_psi_value = 0
  /\ prev_monitor_start_relative_millis = 0
  /\ kpi_df = <<>>
  /\ filtered_events_df = <<>>
  /\ row_no = 1
  /\ pc = "idle"

\* No LogcatParser, and generate_kpi_stats.py not run.
LogcatIdle ==
  /\ logcat = <<>>
  /\ logcat_monitor_start_epoch_millis = 0
  /\ event_counts_dict = <<>>
  /\ logcat_line_no = 1
  /\ logcat_events_df = <<>>
  /\ logcat_pc = "idle"
  /\ returned_events_df = <<>>

StatsIdle ==
  /\ kpi_dfs_dict = <<>>
  /\ merged_df = None
  /\ run_no = 1
  /\ kpi_stats_df = <<>>
  /\ group_no = 1
  /\ stats_pc = "idle"

Init ==
  /\ InitTables \/ InitEvents \/ InitExample
  /\ GetKpiDfStart
  /\ DumpIdle
  /\ LogcatIdle
  /\ StatsIdle

Next ==
  \/ ProcessPsiDfEmpty
  \/ ProcessPsiDfBegin
  \/ ScanRow
  \/ MatchCujCompleted
  \/ MatchExceededThreshold
  \/ MatchDroppedBelowThreshold
  \/ MatchReachedBaseline
  \/ ReachedBaselineRaise
  \/ SkipEventDescription
  \/ EndRow
  \/ CheckValidRaise
  \/ CheckValidReturn
  \/ AppendKpiRow
  \/ GetKpiDfNoEvents
  \/ ProcessEventsDfEmpty
  \/ ProcessEventsDfFilter
  \/ AppendEvent
  \/ ProcessEventsDfReturn

Spec == Init /\ [][Next]_vars

----------------------------------------------------------------------------
(* parse_psi_events.py: parse_psi_dump *)

\* Most lines of a dump, the largest uptime in it, and most annotations of a
\* line.
MaxLines == 3
MaxUptime == 2
MaxAnnotations == 2

\* A line of the dump: whether PSI_LINE_RE matches it, and the groups of the
\* match that parse_psi_dump reads.  event_descriptions is None when the line
\* has no quoted segment, else Some of the characters between its outer quotes.
DumpLine(matches, uptime_millis, local_datetime, cpu_some_avg10, event_descriptions) ==
  [matches |-> matches, uptime_millis |-> uptime_millis,
   local_datetime |-> local_datetime, cpu_some_avg10 |-> cpu_some_avg10,
   event_descriptions |-> event_descriptions]

\* Fault variant of get_epoch_milliseconds: -1 in place of 0 when strptime
\* raises.
get_epoch_milliseconds_or_minus_one(date_string) ==
  IF date_string \in {"1970-01-02 00:00:00.000000", "1970-01-02 00:00:00.000"} THEN 86400000
  ELSE IF date_string \in {"1970-01-02 00:00:01.500000", "1970-01-02 00:00:01.500"}
    THEN 86401500
  ELSE IF date_string = "1970-01-01 23:50:00.000" THEN 85800000
  ELSE IF date_string = "1970-01-01 23:49:59.999" THEN 85799999
  ELSE -1

\* get_epoch_milliseconds on the wall-clock strings of the dumps and logcats
\* below (UTC; '%f' takes the six digits of a dump and the three of a logcat):
\* strptime raises ValueError on a month 13, and 0 is returned.
get_epoch_milliseconds(date_string) ==
  IF date_string \in {"1970-01-02 00:00:00.000000", "1970-01-02 00:00:00.000"} THEN 86400000
  ELSE IF date_string \in {"1970-01-02 00:00:01.500000", "1970-01-02 00:00:01.500"}
    THEN 86401500
  ELSE IF date_string = "1970-01-01 23:50:00.000" THEN 85800000
  ELSE IF date_string = "1970-01-01 23:49:59.999" THEN 85799999
  ELSE 0

\* "not x" of an optional number.
Falsy(x) == ~Truthy(x)

\* Fault variant of RelativeMillis: the operands exchanged.
RelativeMillisReversed(uptime_millis, start_uptime_millis) ==
  start_uptime_millis - uptime_millis

\* Lines 182-183.  The cells of the table hold the decimal strings of the
\* integers; a cell is taken for the integer it writes.
RelativeMillis(uptime_millis, start_uptime_millis) ==
  uptime_millis - start_uptime_millis

\* '" "' in s
RECURSIVE HasDelimiter(_)
HasDelimiter(s) ==
  /\ Len(s) >= 3
  /\ \/ SubSeq(s, 1, 3) = <<"\"", " ", "\"">>
     \/ HasDelimiter(Tail(s))

\* s.replace('" "', ',')
RECURSIVE ReplaceDelimiter(_)
ReplaceDelimiter(s) ==
  IF Len(s) >= 3 /\ SubSeq(s, 1, 3) = <<"\"", " ", "\"">>
  THEN <<",">> \o ReplaceDelimiter(SubSeq(s, 4, Len(s)))
  ELSE IF s = <<>> THEN <<>>
  ELSE <<s[1]>> \o ReplaceDelimiter(Tail(s))

\* s.split(',')
RECURSIVE SplitComma(_)
SplitComma(s) ==
  IF \E i \in 1..Len(s) : s[i] = ","
  THEN LET i == CHOOSE i \in 1..Len(s) : s[i] = "," /\ \A j \in 1..(i - 1) : s[j] # ","
       IN <<SubSeq(s, 1, i - 1)>> \o SplitComma(SubSeq(s, i + 1, Len(s)))
  ELSE <<s>>

\* Lines 184-190, and line 191 with on_psi_field_missing for an absent or
\* empty segment: the event_descriptions cell of the row.
ParsedEventDescriptions(event_descriptions) ==
  IF event_descriptions = None \/ Val(event_descriptions) = <<>> THEN <<>>
  ELSE IF HasDelimiter(Val(event_descriptions))
    THEN SplitComma(ReplaceDelimiter(Val(event_descriptions)))
  ELSE <<Val(event_descriptions)>>

\* Fault variant of ParsePsiLineFail: a line PSI_LINE_RE does not match is
\* passed over.
ParsePsiLineSkip ==
  /\ dump_pc = "parse"
  /\ line_no <= Len(dump)
  /\ ~dump[line_no].matches
  /\ line_no' = line_no + 1
  /\ UNCHANGED <<dump, dump_pc, monitor_start_uptime_millis, monitor_start_epoch_millis,
                 parsed_psi_df>>
  /\ UNCHANGED <<kpi_vars, logcat_vars, stats_vars>>

\* Line 175: the assert of parse_psi_line fails, parse_psi_dump ends with the
\* AssertionError.
ParsePsiLineFail ==
  /\ dump_pc = "parse"
  /\ line_no <= Len(dump)
  /\ ~dump[line_no].matches
  /\ dump_pc' = "error"
  /\ UNCHANGED <<dump, line_no, monitor_start_uptime_millis, monitor_start_epoch_millis,
                 parsed_psi_df>>
  /\ UNCHANGED <<kpi_vars, logcat_vars, stats_vars>>

\* Lines 175-193: one line of the dump becomes one row.
ParsePsiLine ==
  /\ dump_pc = "parse"
  /\ line_no <= Len(dump)
  /\ dump[line_no].matches
  /\ LET psi_dict == dump[line_no]
         epoch_millis == get_epoch_milliseconds(psi_dict.local_datetime)
         first == Falsy(monitor_start_uptime_millis)
         relative_millis ==
           IF first THEN 0
           ELSE RelativeMillis(psi_dict.uptime_millis, Val(monitor_start_uptime_millis))
     IN
       /\ monitor_start_uptime_millis' =
            IF first THEN Some(psi_dict.uptime_millis) ELSE monitor_start_uptime_millis
       /\ monitor_start_epoch_millis' =
            IF first THEN Some(epoch_millis) ELSE monitor_start_epoch_millis
       /\ parsed_psi_df' = Append(parsed_psi_df,
            [uptime_millis |-> psi_dict.uptime_millis,
             local_datetime |-> psi_dict.local_datetime,
             epoch_millis |-> epoch_millis,
             monitor_start_relative_millis |-> relative_millis,
             cpu_some_avg10 |-> psi_dict.cpu_some_avg10,
             event_descriptions |-> ParsedEventDescriptions(psi_dict.event_descriptions)])
  /\ line_no' = line_no + 1
  /\ UNCHANGED <<dump, dump_pc>>
  /\ UNCHANGED <<kpi_vars, logcat_vars, stats_vars>>

\* Line 194.
ParsePsiDumpReturn ==
  /\ dump_pc = "parse"
  /\ line_no > Len(dump)
  /\ dump_pc' = "done"
  /\ UNCHANGED <<dump, line_no, monitor_start_uptime_millis, monitor_start_epoch_millis,
                 parsed_psi_df>>
  /\ UNCHANGED <<kpi_vars, logcat_vars, stats_vars>>

\* The wall-clock strings of the dumps: two dates, and one with a month 13.
Dates ==
  {"1970-01-02 00:00:00.000000", "1970-01-02 00:00:01.500000",
   "1970-13-02 00:00:00.000000"}

\* A line the grammar rejects.
BadLine == DumpLine(FALSE, 0, "", 0, None)

\* Lines without annotations, of every uptime and date.
TimedLines ==
  {BadLine} \cup {DumpLine(TRUE, u, d, 10, None) : u \in 0..MaxUptime, d \in Dates}

\* The lists of annotations a line reports; the annotation strings are a, b
\* and one with a comma in it.
AnnotationLists ==
  UNION {ListsOfLen({<<"a">>, <<"b">>, <<"a", ",", "b">>}, n) : n \in 1..MaxAnnotations}

\* The annotations of a list as psi_monitor writes them between the outer
\* quotes of a line: one after the other with '" "' in between.
RECURSIVE JoinAnnotations(_)
JoinAnnotations(l) ==
  IF Len(l) = 1 THEN l[1]
  ELSE l[1] \o <<"\"", " ", "\"">> \o JoinAnnotations(Tail(l))

\* Lines one millisecond apart with a quoted segment: the empty one, or that
\* of an annotation list.
AnnotatedLines ==
  {DumpLine(TRUE, 1, "1970-01-02 00:00:00.000000", 85, Some(s)) :
     s \in {<<>>} \cup {JoinAnnotations(l) : l \in AnnotationLists}}

InitDump ==
  /\ \/ \E n \in 0..MaxLines : dump \in [1..n -> TimedLines]
     \/ \E n \in 1..2 : dump \in [1..n -> AnnotatedLines]
  /\ line_no = 1
  /\ monitor_start_uptime_millis = None
  /\ monitor_start_epoch_millis = None
  /\ parsed_psi_df = <<>>
  /\ dump_pc = "parse"
  /\ KpiIdle
  /\ LogcatIdle
  /\ StatsIdle

NextDump ==
  \/ ParsePsiLineFail
  \/ ParsePsiLine
  \/ ParsePsiDumpReturn

SpecDump == InitDump /\ [][NextDump]_vars

----------------------------------------------------------------------------
(* Properties of process_psi_df *)

\* The annotations scanned so far: the pairs <<i, j>> of a row (1-based) and a
\* position in its event_descriptions that the loop of line 115 has taken.
ScannedOfRow(i) ==
  IF i <= index THEN Len(psi_df[i].event_descriptions)
  ELSE IF i = index + 1 /\ pc = "event" THEN pos - 1
  ELSE IF i = index + 1 /\ pc = "error" THEN pos
  ELSE 0

Scanned == UNION {{<<i, j>> : j \in 1..ScannedOfRow(i)} : i \in 1..Len(psi_df)}

Before(p, q) == p[1] < q[1] \/ (p[1] = q[1] /\ p[2] <= q[2])

DescriptionAt(p) == psi_df[p[1]].event_descriptions[p[2]]
MillisAt(p) == psi_df[p[1]].monitor_start_relative_millis

IsCujCompleted(d) == d = CUJ_COMPLETED_EVENT
IsExceeded(d) == PSI_EXCEEDED_THRESHOLD_RE(d).matched
IsDropped(d) == PSI_DROPPED_BELOW_THRESHOLD_RE(d).matched
IsBaseline(d) == PSI_REACHED_BASELINE_RE(d).matched

\* The scanned annotations P holds of, and the first of them in scan order.
ScannedMatching(P(_)) == {p \in Scanned : P(DescriptionAt(p))}
FirstMatching(P(_)) ==
  CHOOSE p \in ScannedMatching(P) : \A q \in ScannedMatching(P) : Before(p, q)

\* The scan is at an annotation.
AtAnnotation == pc = "event" /\ pos <= Len(EventDescriptions)

\* C1, as claimed: during the scan a milestone is recorded only if every
\* milestone before it in the order CujCompleted, ThresholdExceeded,
\* ThresholdDroppedBelow, BaselineReached is recorded already.
C1_RecordedOnlyAfterEarlier ==
  /\ psi_kpi.exceeded_threshold_millis # None => psi_kpi.cuj_completed_millis # None
  /\ psi_kpi.dropped_below_threshold_millis # None => psi_kpi.exceeded_threshold_millis # None
  /\ psi_kpi.reached_baseline_millis # None => psi_kpi.dropped_below_threshold_millis # None

\* C1, amended: during the scan an annotation that matches the pattern of a
\* milestone not yet recorded records that milestone at the time of its row,
\* whether or not the milestones before it in the order are recorded.
C1_RecordedWhenUnsetAndMatched ==
  [][AtAnnotation =>
       LET d == EventDescription
           t == Some(Row.monitor_start_relative_millis)
       IN /\ (IsCujCompleted(d) /\ psi_kpi.cuj_completed_millis = None)
               => psi_kpi'.cuj_completed_millis = t
          /\ (IsExceeded(d) /\ psi_kpi.exceeded_threshold_millis = None)
               => psi_kpi'.exceeded_threshold_millis = t
          /\ (IsDropped(d) /\ psi_kpi.dropped_below_threshold_millis = None)
               => psi_kpi'.dropped_below_threshold_millis = t
          /\ (IsBaseline(d) /\ psi_kpi.reached_baseline_millis = None)
               => psi_kpi'.reached_baseline_millis = t]_vars

\* The threshold was recorded as exceeded and as dropped below while the CUJ is
\* not recorded as completed, and the scan goes on.
C1_Witness ==
  /\ pc = "event"
  /\ psi_kpi.cuj_completed_millis = None
  /\ psi_kpi.exceeded_threshold_millis # None
  /\ psi_kpi.dropped_below_threshold_millis # None

\* The milestone fields of the object as the scanned annotations determine them:
\* absent when no scanned annotation matches the pattern, else the time of the
\* row of the first match and the groups that match captured.
FirstMatchFields ==
  /\ psi_kpi.cuj_completed_millis =
       IF ScannedMatching(IsCujCompleted) = {} THEN None
       ELSE Some(MillisAt(FirstMatching(IsCujCompleted)))
  /\ <<psi_kpi.exceeded_threshold_millis, psi_kpi.exceeded_threshold_value,
       psi_kpi.exceeded_threshold_type>> =
       IF ScannedMatching(IsExceeded) = {} THEN <<None, None, None>>
       ELSE LET p == FirstMatching(IsExceeded)
            IN <<Some(MillisAt(p)), DescriptionAt(p).num, Some(DescriptionAt(p).rest)>>
  /\ <<psi_kpi.dropped_below_threshold_millis, psi_kpi.dropped_below_threshold_value,
       psi_kpi.dropped_below_threshold_type>> =
       IF ScannedMatching(IsDropped) = {} THEN <<None, None, None>>
       ELSE LET p == FirstMatching(IsDropped)
            IN <<Some(MillisAt(p)), DescriptionAt(p).num, Some(DescriptionAt(p).rest)>>
  /\ <<psi_kpi.reached_baseline_millis, psi_kpi.reached_baseline_latest_psi_entries>> =
       IF ScannedMatching(IsBaseline) = {} THEN <<None, None>>
       ELSE LET p == FirstMatching(IsBaseline)
            IN <<Some(MillisAt(p)), DescriptionAt(p).num>>

\* A recorded milestone keeps its fields in the step.
MilestonesKept ==
  /\ psi_kpi.cuj_completed_millis # None
       => psi_kpi'.cuj_completed_millis = psi_kpi.cuj_completed_millis
  /\ psi_kpi.exceeded_threshold_millis # None
       => /\ psi_kpi'.exceeded_threshold_millis = psi_kpi.exceeded_threshold_millis
          /\ psi_kpi'.exceeded_threshold_value = psi_kpi.exceeded_threshold_value
          /\ psi_kpi'.exceeded_threshold_type = psi_kpi.exceeded_threshold_type
  /\ psi_kpi.dropped_below_threshold_millis # None
       => /\ psi_kpi'.dropped_below_threshold_millis = psi_kpi.dropped_below_threshold_millis
          /\ psi_kpi'.dropped_below_threshold_value = psi_kpi.dropped_below_threshold_value
          /\ psi_kpi'.dropped_below_threshold_type = psi_kpi.dropped_below_threshold_type
  /\ psi_kpi.reached_baseline_millis # None
       => /\ psi_kpi'.reached_baseline_millis = psi_kpi.reached_baseline_millis
          /\ psi_kpi'.reached_baseline_latest_psi_entries =
               psi_kpi.reached_baseline_latest_psi_entries

\* C2: each milestone is set at most once and the first match wins: a recorded
\* milestone's time and captures never change afterwards, and they are those of
\* the first annotation in scan order that matches its pattern, also when that
\* match is at relative time 0.
C2_FirstMatchWins == [][MilestonesKept]_vars /\ []FirstMatchFields

\* The threshold was recorded as exceeded at time 0, and an annotation that
\* matches the same pattern with other captures, on a later row, is scanned.
C2_Witness ==
  /\ psi_kpi.exceeded_threshold_millis = Some(0)
  /\ \E p \in ScannedMatching(IsExceeded) :
       /\ MillisAt(p) > 0
       /\ DescriptionAt(p).num # psi_kpi.exceeded_threshold_value
       /\ Some(DescriptionAt(p).rest) # psi_kpi.exceeded_threshold_type

----------------------------------------------------------------------------
(* Properties of _check_valid and populate_kpi_df *)

\* populate_kpi_df went past _check_valid.
Emitting == pc \in {"append_kpi_rows", "process_events_df", "append_events", "done"}

AllRecorded(kpi) ==
  /\ kpi.cuj_completed_millis # None
  /\ kpi.exceeded_threshold_millis # None
  /\ kpi.dropped_below_threshold_millis # None
  /\ kpi.reached_baseline_millis # None

\* The four conditions on the times of a run that has all its milestones.
TimesInOrder(kpi) ==
  /\ Val(kpi.exceeded_threshold_millis) < Val(kpi.dropped_below_threshold_millis)
  /\ Val(kpi.cuj_completed_millis) <= Val(kpi.exceeded_threshold_millis)
  /\ Val(kpi.cuj_completed_millis) <= Val(kpi.reached_baseline_millis)
  /\ Val(kpi.reached_baseline_total_duration_millis) > 0

CapturesAgree(kpi) ==
  /\ kpi.exceeded_threshold_value = kpi.dropped_below_threshold_value
  /\ kpi.exceeded_threshold_type = kpi.dropped_below_threshold_type

\* C3: whenever KPI rows are emitted, exceeded < dropped below, CUJ completed
\* <= exceeded, CUJ completed <= baseline reached and the duration of the
\* baseline window > 0; a run with all milestones that breaks one of these
\* ends in the validation error.
C3_EmittedOnlyInOrder ==
  /\ [](Emitting \/ kpi_df # <<>> => AllRecorded(psi_kpi) /\ TimesInOrder(psi_kpi))
  /\ [][pc = "populate_kpi_df" /\ AllRecorded(psi_kpi) /\ ~TimesInOrder(psi_kpi)
          => pc' = "error"]_vars

\* All eleven rows are emitted for a run whose CUJ completed on the row that
\* exceeded the threshold.
C3_Witness ==
  /\ pc = "done" /\ Len(kpi_df) = 11
  /\ psi_kpi.cuj_completed_millis = psi_kpi.exceeded_threshold_millis

\* C4: a run with a milestone absent after the scan, the run on the empty table
\* included, or with a failed validation check, ends in an error with no row in
\* the KPI table; no error leaves some of the eleven rows behind.
C4_InvalidEmitsNothing ==
  /\ [][pc = "populate_kpi_df"
          /\ ~(AllRecorded(psi_kpi) /\ CapturesAgree(psi_kpi) /\ TimesInOrder(psi_kpi))
          => pc' = "error" /\ kpi_df' = <<>>]_vars
  /\ [](pc = "error" => kpi_df = <<>>)
  /\ [](psi_df = <<>> => kpi_df = <<>> /\ ~Emitting)

\* A run with all four milestones and agreeing captures whose baseline window
\* has duration 0 ended in the error, after the scan of all rows.
C4_Witness ==
  /\ pc = "error" /\ index = Len(psi_df) /\ kpi_df = <<>>
  /\ AllRecorded(psi_kpi) /\ CapturesAgree(psi_kpi)
  /\ psi_kpi.reached_baseline_total_duration_millis = Some(0)
  /\ Val(psi_kpi.exceeded_threshold_millis) < Val(psi_kpi.dropped_below_threshold_millis)
  /\ Val(psi_kpi.cuj_completed_millis) <= Val(psi_kpi.exceeded_threshold_millis)

\* The captures of the two threshold milestones differ.
CapturesDiffer ==
  /\ psi_kpi.exceeded_threshold_millis # None
  /\ psi_kpi.dropped_below_threshold_millis # None
  /\ \/ psi_kpi.exceeded_threshold_value # psi_kpi.dropped_below_threshold_value
     \/ psi_kpi.exceeded_threshold_type # psi_kpi.dropped_below_threshold_type

\* C5: when the exceeded and the dropped-below milestone are both recorded and
\* their percentages or their pressure types differ, extraction never succeeds,
\* whatever the captures and the times of the milestones: no row is emitted
\* and the run ends in an error.
C5_MismatchNeverSucceeds ==
  CapturesDiffer => pc \in {"row", "event", "populate_kpi_df", "error"} /\ kpi_df = <<>>

\* A run ended in the validation error whose percentages differ while the
\* types agree, with all four milestones and their times in order.
C5_Witness ==
  /\ pc = "error" /\ index = Len(psi_df)
  /\ AllRecorded(psi_kpi) /\ TimesInOrder(psi_kpi)
  /\ psi_kpi.exceeded_threshold_type = psi_kpi.dropped_below_threshold_type
  /\ psi_kpi.exceeded_threshold_value # psi_kpi.dropped_below_threshold_value

\* C6: the first baseline annotation, on the row of index i with window N: when
\* N > i the scan ends in an error there, and when N <= i the scan goes on and
\* the duration of the window is the time of the row minus that of row i - N.
C6_BaselineWindow ==
  [][AtAnnotation /\ IsBaseline(EventDescription) /\ psi_kpi.reached_baseline_millis = None
       => LET N == Val(EventDescription.num)
              i == index
          IN IF N > i
             THEN pc' = "error" /\ index' = i /\ kpi_df' = <<>>
             ELSE /\ pc' = "event" /\ pos' = pos + 1 /\ index' = i
                  /\ psi_kpi'.reached_baseline_total_duration_millis =
                       Some(psi_df[i + 1].monitor_start_relative_millis
                            - psi_df[i - N + 1].monitor_start_relative_millis)]_vars

\* The scan ended in the error on a row after the first whose window is one
\* more than its index.
C6_Witness ==
  /\ pc = "error" /\ index < Len(psi_df) /\ index >= 1
  /\ psi_kpi.reached_baseline_latest_psi_entries = Some(index + 1)

\* The table has exactly one annotation d, on a row of relative time millis.
OnceAt(df, d, millis) ==
  \E i \in 1..Len(df) :
    /\ df[i].monitor_start_relative_millis = millis
    /\ \A k \in 1..Len(df) :
         Cardinality({j \in 1..Len(df[k].event_descriptions) :
                        df[k].event_descriptions[j] = d}) = IF k = i THEN 1 ELSE 0

\* The table of C7.
IsExampleTable(df) ==
  /\ OnceAt(df, CUJ_COMPLETED_EVENT, 1000)
  /\ OnceAt(df, ExceededDesc(80, "cpu:some"), 1500)
  /\ OnceAt(df, DroppedDesc(80, "cpu:some"), 3500)
  /\ OnceAt(df, BaselineDesc(2), 4000)
  /\ \E i \in 3..Len(df) :
       /\ BaselineDesc(2) \in {df[i].event_descriptions[j] :
                                 j \in 1..Len(df[i].event_descriptions)}
       /\ df[i - 2].monitor_start_relative_millis = 3800

\* The KPI table has a row of this name and value.
HasKpi(text, value) ==
  \E j \in 1..Len(kpi_df) : kpi_df[j].Event.text = text /\ RatEq(kpi_df[j].Value, value)

\* C7: for the table with one CUJ completed at 1000, "PSI exceeded threshold:
\* 80% cpu:some" at 1500, the matching dropped below at 3500 and "PSI reached
\* baseline across latest 2 entries" at 4000, two rows after the row of 3800,
\* extraction succeeds and the KPI table has a CUJ completed row of 1.0, a
\* baseline calculation duration row of 0.2 and a time above threshold row of
\* 2.0 seconds.
C7_Example ==
  IsExampleTable(psi_df) =>
    /\ pc # "error"
    /\ pc = "done" =>
         /\ HasKpi("CUJ completed", Rat(1, 1))
         /\ HasKpi("Baseline calculation duration", Rat(2, 10))
         /\ HasKpi("Time spent above the '{}' PSI threshold {}%", Rat(2, 1))

\* get_kpi_df returned for the table of C7, here with a first row at 0 and an
\* annotation that is no milestone.
C7_Witness ==
  /\ IsExampleTable(psi_df) /\ pc = "done" /\ Len(kpi_df) = 11
  /\ Len(psi_df) = 7 /\ psi_df[5].event_descriptions # <<>>

----------------------------------------------------------------------------
(* Properties of get_kpi_df and process_events_df *)

\* The names of the eleven rows, in their order.
ElevenRows ==
  <<"CUJ completed",
    "Time taken to reach '{}' PSI baseline (including baseline calculation duration)",
    "Total number of '{}' PSI entries used in baseline calculation",
    "Baseline calculation duration",
    "Max '{}' PSI value",
    "Time spent above the '{}' PSI threshold {}%",
    "Time taken to drop below the '{}' PSI threshold",
    "Max '{}' PSI value after dropped below threshold",
    "Total time spent above the '{}' PSI threshold 80%",
    "Total time spent above the '{}' PSI threshold 50%",
    "Total time spent above the '{}' PSI threshold 30%">>

\* The events of a table whose key is present and whose duration is present
\* and > 0, in the order of the table.
RECURSIVE QualifyingEvents(_)
QualifyingEvents(df) ==
  IF df = <<>> THEN <<>>
  ELSE (IF /\ Head(df).event_key # None /\ Head(df).duration_value # None
           /\ Val(Head(df).duration_value) > 0
        THEN <<Head(df)>> ELSE <<>>) \o QualifyingEvents(Tail(df))

\* The KPI table get_kpi_df returns: the eleven rows, then one row per
\* qualifying event of the event table.
ReturnedKpiTable ==
  LET events == IF events_df = None THEN <<>> ELSE QualifyingEvents(Val(events_df))
  IN /\ Len(kpi_df) = Len(ElevenRows) + Len(events)
     /\ \A j \in 1..Len(ElevenRows) : kpi_df[j].Event.text = ElevenRows[j]
     /\ \A j \in 1..Len(events) :
          LET row == kpi_df[Len(ElevenRows) + j]
          IN /\ row.Event.text = Val(events[j].event_key)
             /\ row.Tag = events[j].event_tag
             /\ row.Value = Rat(Val(events[j].duration_value), 1)

\* C8: on success the KPI table holds the eleven rows in their fixed order,
\* then, when an event table is given, exactly one row per event with a key
\* and a duration > 0, in the order of the event table; an append never changes
\* or reorders a row appended before.
C8_ElevenRowsThenEvents ==
  /\ [](pc = "done" => ReturnedKpiTable)
  /\ [][/\ Len(kpi_df') >= Len(kpi_df)
        /\ SubSeq(kpi_df', 1, Len(kpi_df)) = kpi_df]_vars

\* get_kpi_df returned thirteen rows for an event table of three events, the
\* second of which has duration 0.
C8_Witness ==
  /\ pc = "done" /\ Len(kpi_df) = 13
  /\ events_df # None /\ Len(Val(events_df)) = 3
  /\ Val(events_df)[2].duration_value = Some(0)

----------------------------------------------------------------------------
(* Properties of parse_psi_dump *)

RelativeOf(i) == parsed_psi_df[i].monitor_start_relative_millis
UptimeOf(i) == parsed_psi_df[i].uptime_millis

\* The uptimes of the rows parsed so far never decrease.
UptimesNonDecreasing ==
  \A i \in 2..Len(parsed_psi_df) : UptimeOf(i) >= UptimeOf(i - 1)

\* C9: for a dump whose uptimes never decrease, the relative time of the first
\* row of the table is 0 and the relative time of every other row is at least
\* that of the row before it.
C9_RelativeNonDecreasing ==
  UptimesNonDecreasing =>
    /\ parsed_psi_df # <<>> => RelativeOf(1) = 0
    /\ \A i \in 2..Len(parsed_psi_df) : RelativeOf(i) >= RelativeOf(i - 1)

\* parse_psi_dump returned for a dump of three lines whose uptimes grow from 0.
C9_Witness ==
  /\ dump_pc = "done" /\ Len(parsed_psi_df) = 3
  /\ UptimeOf(1) = 0
  /\ UptimeOf(1) < UptimeOf(2) /\ UptimeOf(2) < UptimeOf(3)
  /\ RelativeOf(3) > RelativeOf(2)

\* C10, as claimed: every row after the first has its uptime minus the uptime
\* of the first row for relative time, also when the first uptime is 0.
C10_RelativeIsUptimeMinusFirst ==
  \A i \in 2..Len(parsed_psi_df) : RelativeOf(i) = UptimeOf(i) - UptimeOf(1)

\* C11, as claimed: the monitor start of parse_psi_dump is the epoch
\* milliseconds of the first record of the dump, fixed by the first line and
\* changed by no later line.
C11_MonitorStartIsFirstEpoch ==
  parsed_psi_df # <<>> => monitor_start_epoch_millis = Some(parsed_psi_df[1].epoch_millis)

\* The rows of the table are the lines of the dump, one by one and in order.
RowsAreLines ==
  /\ Len(parsed_psi_df) = Len(dump)
  /\ \A i \in 1..Len(dump) :
       /\ dump[i].matches
       /\ parsed_psi_df[i].uptime_millis = dump[i].uptime_millis
       /\ parsed_psi_df[i].local_datetime = dump[i].local_datetime
       /\ parsed_psi_df[i].cpu_some_avg10 = dump[i].cpu_some_avg10

\* C12: a line that fails the grammar ends parse_psi_dump in a fatal error at
\* that line, and no table is returned; the line is never skipped, so a
\* returned table has exactly one row per line of the dump, in their order.
C12_BadLineAborts ==
  /\ [](dump_pc = "done" => RowsAreLines)
  /\ [](dump_pc = "error" => line_no <= Len(dump) /\ ~dump[line_no].matches)
  /\ [][dump_pc = "parse" /\ line_no <= Len(dump) /\ ~dump[line_no].matches
          => dump_pc' = "error" /\ line_no' = line_no]_vars
  /\ [][dump_pc = "error" => dump_pc' = "error"]_vars

\* The parse ended in the error at the second of three lines, after one row.
C12_Witness ==
  /\ dump_pc = "error" /\ Len(dump) = 3 /\ line_no = 2 /\ Len(parsed_psi_df) = 1
  /\ dump[3].matches

\* The wall-clock strings strptime rejects.
FailsConversion(date_string) == date_string = "1970-13-02 00:00:00.000000"

\* C13: a line that matches the grammar with a wall-clock timestamp that fails
\* the date conversion does not end the parse: its row has epoch milliseconds
\* 0 and the line's pressure value and a relative time, and the lines after it
\* are parsed.
C13_BadDateGivesZero ==
  /\ [](\A i \in 1..Len(parsed_psi_df) :
          FailsConversion(dump[i].local_datetime) =>
            /\ parsed_psi_df[i].epoch_millis = 0
            /\ parsed_psi_df[i].cpu_some_avg10 = dump[i].cpu_some_avg10
            /\ parsed_psi_df[i].monitor_start_relative_millis \in Int)
  /\ [][/\ dump_pc = "parse" /\ line_no <= Len(dump) /\ dump[line_no].matches
        /\ FailsConversion(dump[line_no].local_datetime)
        => /\ dump_pc' = "parse" /\ line_no' = line_no + 1
           /\ Len(parsed_psi_df') = line_no]_vars

\* parse_psi_dump returned three rows for a dump whose first line has a date
\* that fails the conversion, the third row with a relative time above 0.
C13_Witness ==
  /\ dump_pc = "done" /\ Len(parsed_psi_df) = 3
  /\ FailsConversion(dump[1].local_datetime)
  /\ ~FailsConversion(dump[2].local_datetime)
  /\ parsed_psi_df[1].epoch_millis = 0
  /\ parsed_psi_df[3].monitor_start_relative_millis > 0

\* C14, as claimed: a line whose quoted segment is the annotations of a
\* non-empty list joined with '" "' is parsed to exactly that list.
C14_AnnotationRoundTrip ==
  \A i \in 1..Len(parsed_psi_df) : \A l \in AnnotationLists :
    dump[i].event_descriptions = Some(JoinAnnotations(l))
      => parsed_psi_df[i].event_descriptions = l

----------------------------------------------------------------------------
(* parse_psi_events.py: LogcatParser *)

ACTIVITY_TASK_MANAGER_TAG == "ActivityTaskManager"
SYSTEM_SERVER_TIMING_ASYNC_TAG == "SystemServerTimingAsync"
ACTIVITY_DISPLAYED_DURATION_THRESHOLD_MILLIS == 1000
SS_EVENT_MIN_DURATION_TO_PLOT_MILLIS == 50
SS_EVENT_DURATION_THRESHOLD_MILLIS == 250
MIN_DURATION_MILLIS_DELTA_BEFORE_MONITOR_START == -600000

\* A stripped line of the logcat, by its pieces.  local_datetime is None when
\* the line does not start with a timestamp, pid, tid and log level.  After
\* the tag and its colon comes the message: "START u<user_id> {... cmp=<name>}
\* ..." (kind "START"), "Displayed <name> for user <user_id>:
\* +[<duration_secs>s]<duration_millis>ms" (kind "Displayed"), "<name> took to
\* complete: <duration_millis>ms" (kind "took") or the text <name> alone (kind
\* "plain").
LogcatLine(local_datetime, tag, kind, name, user_id, duration_secs, duration_millis) ==
  [local_datetime |-> local_datetime, tag |-> tag, kind |-> kind, name |-> name,
   user_id |-> user_id, duration_secs |-> duration_secs,
   duration_millis |-> duration_millis]

\* A text put together from pieces: the text with its places, and the pieces
\* (None for a place the text does not have).
Text(text, name, user_id, duration_millis) ==
  [text |-> text, name |-> name, user_id |-> user_id, duration_millis |-> duration_millis]

\* ACTIVITY_TASK_MANAGER_START_LINE_RE.match(line)
ACTIVITY_TASK_MANAGER_START_LINE_RE(line) ==
  /\ line.local_datetime # None
  /\ line.tag = ACTIVITY_TASK_MANAGER_TAG /\ line.kind = "START"

\* ACTIVITY_TASK_MANAGER_DISPLAYED_LINE_RE.match(line)
ACTIVITY_TASK_MANAGER_DISPLAYED_LINE_RE(line) ==
  /\ line.local_datetime # None
  /\ line.tag = ACTIVITY_TASK_MANAGER_TAG /\ line.kind = "Displayed"

\* SYSTEM_SERVER_TIMING_ASYNC_COMPLETE_LINE_RE.match(line)
SYSTEM_SERVER_TIMING_ASYNC_COMPLETE_LINE_RE(line) ==
  /\ line.local_datetime # None
  /\ line.tag = SYSTEM_SERVER_TIMING_ASYNC_TAG /\ line.kind = "took"

\* SYSTEM_SERVER_TIMING_ASYNC_LINE_RE.match(line): any message after the tag,
\* that of a "took to complete" line too.
SYSTEM_SERVER_TIMING_ASYNC_LINE_RE(line) ==
  /\ line.local_datetime # None
  /\ line.tag = SYSTEM_SERVER_TIMING_ASYNC_TAG

\* The event_description group of SYSTEM_SERVER_TIMING_ASYNC_LINE_RE: the whole
\* message.
AsyncEventDescription(line) ==
  IF line.kind = "took" THEN Text("{} took to complete: {}ms", line.name, None,
                                  line.duration_millis)
  ELSE Text("{}", line.name, None, None)

\* A row of events_df, in the order of EVENTS_OUT_FIELDS.
LogEvent(epoch_millis, monitor_start_relative_millis, event_tag, event_description, event_key, duration_value, is_high_latency_event, color, should_plot) ==
  [epoch_millis |-> epoch_millis,
   monitor_start_relative_millis |-> monitor_start_relative_millis,
   event_tag |-> event_tag, event_description |-> event_description,
   event_key |-> event_key, duration_value |-> duration_value,
   is_high_latency_event |-> is_high_latency_event, color |-> color,
   should_plot |-> should_plot]

\* An event key: the key of the event, and what "+= ': Occurrence {}'" put
\* after it (None when nothing).
EventKey(key, occurrence) == [key |-> key, occurrence |-> occurrence]

\* Fault variant of OccurrenceOf: the count before the increment.
OccurrenceBeforeIncrement(counts, key) == counts[key] - 1

\* Line 208: the number formatted into the key, read after the increment.
OccurrenceOf(counts, key) == counts[key]

\* Fault variant of BeforeMonitorStartWindow: "<=" in place of "<".
BeforeOrAtMonitorStartWindow(monitor_start_relative_millis) ==
  monitor_start_relative_millis <= MIN_DURATION_MILLIS_DELTA_BEFORE_MONITOR_START

\* Line 215.
BeforeMonitorStartWindow(monitor_start_relative_millis) ==
  monitor_start_relative_millis < MIN_DURATION_MILLIS_DELTA_BEFORE_MONITOR_START

\* Fault variant of GetList: the description of a repeated key is suffixed as
\* the key is.
GetListSuffixingDescription(counts, start_epoch_millis, epoch_millis, event_tag, event_description, color, event_key, duration_millis, is_high_latency_event, should_plot) ==
  LET seen == event_key # None /\ Val(event_key) \in DOMAIN counts
      counts_after ==
        IF event_key = None THEN counts
        ELSE IF seen THEN [counts EXCEPT ![Val(event_key)] = @ + 1]
        ELSE counts @@ (Val(event_key) :> 1)
      key_after ==
        IF event_key = None THEN None
        ELSE IF seen
          THEN Some(EventKey(Val(event_key), Some(OccurrenceOf(counts_after, Val(event_key)))))
        ELSE Some(EventKey(Val(event_key), None))
      monitor_start_relative_millis == epoch_millis - start_epoch_millis
  IN [counts |-> counts_after,
      row |-> IF BeforeMonitorStartWindow(monitor_start_relative_millis) THEN None
              ELSE Some(LogEvent(epoch_millis, monitor_start_relative_millis, event_tag,
                                 IF seen THEN EventKey(event_description, Val(key_after).occurrence)
                                 ELSE event_description,
                                 key_after, duration_millis,
                                 is_high_latency_event, color, should_plot))]

\* LogcatParser._get_list: the dictionary after the call, and the list
\* returned (None, or Some of the row).  event_key is None or Some of a key.
GetList(counts, start_epoch_millis, epoch_millis, event_tag, event_description, color, event_key, duration_millis, is_high_latency_event, should_plot) ==
  LET seen == event_key # None /\ Val(event_key) \in DOMAIN counts
      counts_after ==
        IF event_key = None THEN counts
        ELSE IF seen THEN [counts EXCEPT ![Val(event_key)] = @ + 1]
        ELSE counts @@ (Val(event_key) :> 1)
      key_after ==
        IF event_key = None THEN None
        ELSE IF seen
          THEN Some(EventKey(Val(event_key), Some(OccurrenceOf(counts_after, Val(event_key)))))
        ELSE Some(EventKey(Val(event_key), None))
      monitor_start_relative_millis == epoch_millis - start_epoch_millis
  IN [counts |-> counts_after,
      row |-> IF BeforeMonitorStartWindow(monitor_start_relative_millis) THEN None
              ELSE Some(LogEvent(epoch_millis, monitor_start_relative_millis, event_tag,
                                 event_description, key_after, duration_millis,
                                 is_high_latency_event, color, should_plot))]

\* Fault variants of the comparisons of _parse_line: ">" in place of ">=".
DisplayedAboveThreshold(duration_millis) ==
  duration_millis > ACTIVITY_DISPLAYED_DURATION_THRESHOLD_MILLIS

\* Lines 238 and 240.
DisplayedHighLatency(duration_millis) ==
  duration_millis >= ACTIVITY_DISPLAYED_DURATION_THRESHOLD_MILLIS

\* Lines 248 and 250.
SsEventHighLatency(duration_millis) == duration_millis >= SS_EVENT_DURATION_THRESHOLD_MILLIS

\* Line 251.
SsEventShouldPlot(duration_millis) == duration_millis >= SS_EVENT_MIN_DURATION_TO_PLOT_MILLIS

\* Fault variant of DisplayedDurationMillis: the seconds left out.
DisplayedDurationMillisOnly(duration_secs, duration_millis) == duration_millis

\* Lines 232-235: the duration of a Displayed line; duration_secs is None when
\* the group did not take part in the match.
DisplayedDurationMillis(duration_secs, duration_millis) ==
  IF duration_secs # None THEN (Val(duration_secs) * 1000) + duration_millis
  ELSE duration_millis

\* The branch of _parse_line a line takes: each pattern is tried only when
\* the ones before it do not match (lines 223, 229, 242 and 253).
ParsesAsStart(line) == ACTIVITY_TASK_MANAGER_START_LINE_RE(line)

ParsesAsDisplayed(line) ==
  ~ParsesAsStart(line) /\ ACTIVITY_TASK_MANAGER_DISPLAYED_LINE_RE(line)

ParsesAsComplete(line) ==
  /\ ~ParsesAsStart(line) /\ ~ParsesAsDisplayed(line)
  /\ SYSTEM_SERVER_TIMING_ASYNC_COMPLETE_LINE_RE(line)

\* Fault variant of ParsesAsAsync: SYSTEM_SERVER_TIMING_ASYNC_LINE_RE tried
\* before SYSTEM_SERVER_TIMING_ASYNC_COMPLETE_LINE_RE.
ParsesAsAsyncBeforeComplete(line) ==
  /\ ~ParsesAsStart(line) /\ ~ParsesAsDisplayed(line)
  /\ SYSTEM_SERVER_TIMING_ASYNC_LINE_RE(line)

ParsesAsAsync(line) ==
  /\ ~ParsesAsStart(line) /\ ~ParsesAsDisplayed(line) /\ ~ParsesAsComplete(line)
  /\ SYSTEM_SERVER_TIMING_ASYNC_LINE_RE(line)

LogcatLineNow == logcat[logcat_line_no]

\* get_events_df, lines 267-269, with the result r of _get_list: the row is
\* appended when there is one, and the loop goes to the next line.
TakeRow(r) ==
  /\ event_counts_dict' = r.counts
  /\ logcat_events_df' =
       IF r.row = None THEN logcat_events_df ELSE Append(logcat_events_df, Val(r.row))
  /\ logcat_line_no' = logcat_line_no + 1
  /\ UNCHANGED <<logcat, logcat_monitor_start_epoch_millis, logcat_pc, returned_events_df>>
  /\ UNCHANGED <<kpi_vars, dump_vars, stats_vars>>

\* _parse_line, lines 222-228.
ParseLineStart ==
  /\ logcat_pc = "parse" /\ logcat_line_no <= Len(logcat)
  /\ ParsesAsStart(LogcatLineNow)
  /\ LET line == LogcatLineNow IN
       TakeRow(GetList(event_counts_dict, logcat_monitor_start_epoch_millis,
                       get_epoch_milliseconds(Val(line.local_datetime)),
                       ACTIVITY_TASK_MANAGER_TAG,
                       Text("Started {} for user {}", line.name, line.user_id, None),
                       "lime", None, None, FALSE, TRUE))

\* _parse_line, lines 229-241.
ParseLineDisplayed ==
  /\ logcat_pc = "parse" /\ logcat_line_no <= Len(logcat)
  /\ ParsesAsDisplayed(LogcatLineNow)
  /\ LET line == LogcatLineNow
         duration_millis ==
           DisplayedDurationMillis(line.duration_secs, Val(line.duration_millis))
         event_key == Text("Displayed {} for user {}", line.name, line.user_id, None)
     IN TakeRow(GetList(event_counts_dict, logcat_monitor_start_epoch_millis,
                        get_epoch_milliseconds(Val(line.local_datetime)),
                        ACTIVITY_TASK_MANAGER_TAG,
                        Text("Displayed {} for user {} took {}ms", line.name, line.user_id,
                             Some(duration_millis)),
                        IF DisplayedHighLatency(duration_millis) THEN "orangered" ELSE "green",
                        Some(event_key), Some(duration_millis),
                        DisplayedHighLatency(duration_millis), TRUE))

\* _parse_line, lines 242-252.
ParseLineComplete ==
  /\ logcat_pc = "parse" /\ logcat_line_no <= Len(logcat)
  /\ ParsesAsComplete(LogcatLineNow)
  /\ LET line == LogcatLineNow
         duration_millis == Val(line.duration_millis)
         event_key == Text("SystemServer event {}", line.name, None, None)
     IN TakeRow(GetList(event_counts_dict, logcat_monitor_start_epoch_millis,
                        get_epoch_milliseconds(Val(line.local_datetime)),
                        SYSTEM_SERVER_TIMING_ASYNC_TAG,
                        Text("SystemServer event {} took {}ms", line.name, None,
                             Some(duration_millis)),
                        IF SsEventHighLatency(duration_millis) THEN "red" ELSE "saddlebrown",
                        Some(event_key), Some(duration_millis),
                        SsEventHighLatency(duration_millis),
                        SsEventShouldPlot(duration_millis)))

\* _parse_line, lines 253-258.
ParseLineAsync ==
  /\ logcat_pc = "parse" /\ logcat_line_no <= Len(logcat)
  /\ ParsesAsAsync(LogcatLineNow)
  /\ LET line == LogcatLineNow IN
       TakeRow(GetList(event_counts_dict, logcat_monitor_start_epoch_millis,
                       get_epoch_milliseconds(Val(line.local_datetime)),
                       SYSTEM_SERVER_TIMING_ASYNC_TAG,
                       Text("SystemServer event {}", AsyncEventDescription(line), None, None),
                       "yellow", None, None, FALSE, TRUE))

\* _parse_line, line 259: no pattern matches, and get_events_df goes to the
\* next line.
ParseLineNoMatch ==
  /\ logcat_pc = "parse" /\ logcat_line_no <= Len(logcat)
  /\ LET line == LogcatLineNow IN
       /\ ~ParsesAsStart(line) /\ ~ParsesAsDisplayed(line)
       /\ ~ParsesAsComplete(line) /\ ~ParsesAsAsync(line)
  /\ logcat_line_no' = logcat_line_no + 1
  /\ UNCHANGED <<logcat, logcat_monitor_start_epoch_millis, event_counts_dict,
                 logcat_events_df, logcat_pc, returned_events_df>>
  /\ UNCHANGED <<kpi_vars, dump_vars, stats_vars>>

\* get_events_df, line 270: the table goes to the caller.
GetEventsDfReturn ==
  /\ logcat_pc = "parse" /\ logcat_line_no > Len(logcat)
  /\ logcat_pc' = "done"
  /\ returned_events_df' = Append(returned_events_df, logcat_events_df)
  /\ UNCHANGED <<logcat, logcat_monitor_start_epoch_millis, event_counts_dict,
                 logcat_line_no, logcat_events_df>>
  /\ UNCHANGED <<kpi_vars, dump_vars, stats_vars>>

\* Most calls of get_events_df on one LogcatParser.
MaxParses == 2

\* get_events_df, lines 262-265, called again on the LogcatParser that has
\* returned: a new events_df and the lines of the file from the first, with
\* the object as the call before left it (the dictionary is set in __init__,
\* line 199, and nowhere else).
GetEventsDfAgain ==
  /\ logcat_pc = "done" /\ Len(returned_events_df) < MaxParses
  /\ logcat_events_df' = <<>>
  /\ logcat_line_no' = 1
  /\ logcat_pc' = "parse"
  /\ UNCHANGED <<logcat, logcat_monitor_start_epoch_millis, event_counts_dict,
                 returned_events_df>>
  /\ UNCHANGED <<kpi_vars, dump_vars, stats_vars>>

\* Most lines of a logcat.
MaxLogcatLines == 3

\* Lines of every shape at 1.5 s after the monitor start: the four shapes, a
\* line of the ActivityTaskManager with another message, and a line with no
\* timestamp; and a "took to complete" line from before the window.
ShapeLines ==
  {LogcatLine(Some("1970-01-02 00:00:01.500"), ACTIVITY_TASK_MANAGER_TAG, "START",
              "a/.Main", Some(0), None, None),
   LogcatLine(Some("1970-01-02 00:00:01.500"), ACTIVITY_TASK_MANAGER_TAG, "Displayed",
              "a/.Main", Some(0), None, Some(262)),
   LogcatLine(Some("1970-01-02 00:00:01.500"), SYSTEM_SERVER_TIMING_ASYNC_TAG, "took",
              "ssm.x", None, None, Some(47)),
   LogcatLine(Some("1970-01-02 00:00:01.500"), SYSTEM_SERVER_TIMING_ASYNC_TAG, "plain",
              "ssm.x", None, None, None),
   LogcatLine(Some("1970-01-02 00:00:01.500"), ACTIVITY_TASK_MANAGER_TAG, "plain",
              "Slow operation", None, None, None),
   LogcatLine(None, "", "plain", "--------- beginning of main", None, None, None),
   LogcatLine(Some("1970-01-01 23:49:59.999"), SYSTEM_SERVER_TIMING_ASYNC_TAG, "took",
              "ssm.x", None, None, Some(47))}

\* Lines with durations around the thresholds, with and without seconds.
DurationLines ==
  {LogcatLine(Some("1970-01-02 00:00:01.500"), ACTIVITY_TASK_MANAGER_TAG, "Displayed",
              "foo.bar", Some(0), secs, Some(millis)) :
     secs \in {None, Some(0), Some(1)}, millis \in {0, 200, 999, 1000, 1200}}
  \cup
  {LogcatLine(Some("1970-01-02 00:00:01.500"), SYSTEM_SERVER_TIMING_ASYNC_TAG, "took",
              "ssm.x", None, None, Some(millis)) : millis \in {49, 50, 249, 250}}

\* The timestamps of the logcats: at, after and before the monitor start, the
\* last two 600000 and 600001 ms before it, and one with a month 13.
LogcatDates ==
  {"1970-01-02 00:00:00.000", "1970-01-02 00:00:01.500", "1970-01-01 23:50:00.000",
   "1970-01-01 23:49:59.999", "1970-13-02 00:00:00.000"}

\* Lines of two shapes with every timestamp.
WindowLines ==
  {LogcatLine(Some(d), ACTIVITY_TASK_MANAGER_TAG, "START", "a/.Main", Some(0), None, None) :
     d \in LogcatDates}
  \cup
  {LogcatLine(Some(d), SYSTEM_SERVER_TIMING_ASYNC_TAG, "took", "ssm.x", None, None,
              Some(47)) : d \in LogcatDates}

\* The monitor starts are those parse_psi_dump returns for the dumps above.
InitLogcat ==
  /\ \/ /\ \E n \in 0..MaxLogcatLines : logcat \in [1..n -> ShapeLines]
        /\ logcat_monitor_start_epoch_millis = 86400000
     \/ /\ \E n \in 1..2 : logcat \in [1..n -> DurationLines]
        /\ logcat_monitor_start_epoch_millis = 86400000
     \/ /\ \E n \in 1..2 : logcat \in [1..n -> WindowLines]
        /\ logcat_monitor_start_epoch_millis \in {0, 86400000, 86401500}
  /\ event_counts_dict = <<>>
  /\ logcat_line_no = 1
  /\ logcat_events_df = <<>>
  /\ logcat_pc = "parse"
  /\ returned_events_df = <<>>
  /\ KpiIdle
  /\ DumpIdle
  /\ StatsIdle

NextLogcat ==
  \/ ParseLineStart
  \/ ParseLineDisplayed
  \/ ParseLineComplete
  \/ ParseLineAsync
  \/ ParseLineNoMatch
  \/ GetEventsDfReturn

SpecLogcat == InitLogcat /\ [][NextLogcat]_vars

\* A LogcatParser whose get_events_df is called more than once.
SpecLogcatAgain == InitLogcat /\ [][NextLogcat \/ GetEventsDfAgain]_vars

----------------------------------------------------------------------------
(* Properties of LogcatParser *)

\* The shape of a line: that of the first of the four patterns, in the order
\* task start, task displayed, async timing complete, async timing start, that
\* the line matches; "none" when it matches none.
ShapeOf(line) ==
  IF line.local_datetime = None THEN "none"
  ELSE IF line.tag = "ActivityTaskManager" /\ line.kind = "START" THEN "start"
  ELSE IF line.tag = "ActivityTaskManager" /\ line.kind = "Displayed" THEN "displayed"
  ELSE IF line.tag = "SystemServerTimingAsync" /\ line.kind = "took" THEN "complete"
  ELSE IF line.tag = "SystemServerTimingAsync" THEN "async"
  ELSE "none"

\* The shape of an event, by its description.
EventShapeOf(event) ==
  IF event.event_description.text = "Started {} for user {}" THEN "start"
  ELSE IF event.event_description.text = "Displayed {} for user {} took {}ms" THEN "displayed"
  ELSE IF event.event_description.text = "SystemServer event {} took {}ms" THEN "complete"
  ELSE "async"

\* The relative time of a line: its epoch milliseconds minus the monitor start.
RelativeOfLine(line) ==
  get_epoch_milliseconds(Val(line.local_datetime)) - logcat_monitor_start_epoch_millis

\* get_events_df is at a line; the step appends an event; the event appended.
AtLogcatLine == logcat_pc = "parse" /\ logcat_line_no <= Len(logcat)
EventAppended ==
  /\ Len(logcat_events_df') = Len(logcat_events_df) + 1
  /\ SubSeq(logcat_events_df', 1, Len(logcat_events_df)) = logcat_events_df
NoEventAppended == logcat_events_df' = logcat_events_df
NewEvent == logcat_events_df'[Len(logcat_events_df')]

\* C15: a line yields at most one event, of the shape of the first pattern it
\* matches in the order task start, task displayed, async timing complete,
\* async timing start; a line of the async timing complete shape (inside the
\* time window) yields a complete event with its duration, never an async
\* timing start event; a line that matches no pattern yields no event and no
\* error, and the parse goes on with the next line.
C15_FirstPatternWins ==
  [][AtLogcatLine =>
       LET line == LogcatLineNow IN
         /\ logcat_pc' = "parse" /\ logcat_line_no' = logcat_line_no + 1
         /\ EventAppended \/ NoEventAppended
         /\ ShapeOf(line) = "none" => NoEventAppended
         /\ EventAppended => EventShapeOf(NewEvent) = ShapeOf(line)
         /\ (ShapeOf(line) = "complete" /\ RelativeOfLine(line) >= -600000)
              => /\ EventAppended
                 /\ NewEvent.duration_value = line.duration_millis
                 /\ NewEvent.event_tag = "SystemServerTimingAsync"
                 /\ NewEvent.event_description.name = line.name]_vars

\* get_events_df returned two events for a logcat of a line of no shape, a
\* "took to complete" line and a line of the same tag without a duration.
C15_Witness ==
  /\ logcat_pc = "done" /\ Len(logcat) = 3 /\ Len(logcat_events_df) = 2
  /\ ShapeOf(logcat[1]) = "none"
  /\ ShapeOf(logcat[2]) = "complete" /\ EventShapeOf(logcat_events_df[1]) = "complete"
  /\ ShapeOf(logcat[3]) = "async" /\ EventShapeOf(logcat_events_df[2]) = "async"

\* The dedup key of a line: None for the shapes that have none.
KeyOfLine(line) ==
  IF ShapeOf(line) = "displayed"
    THEN Some(Text("Displayed {} for user {}", line.name, line.user_id, None))
  ELSE IF ShapeOf(line) = "complete"
    THEN Some(Text("SystemServer event {}", line.name, None, None))
  ELSE None

\* The number of lines up to line i that have the key of line i.
OccurrenceNo(i) == Cardinality({j \in 1..i : KeyOfLine(logcat[j]) = KeyOfLine(logcat[i])})

\* C16: within one parse the event of the first line with dedup key K has the
\* key K as it is, and for N >= 2 the event of the Nth line with key K has K
\* followed by ': Occurrence N'.
C16_OccurrenceSuffix ==
  [][AtLogcatLine /\ EventAppended /\ KeyOfLine(LogcatLineNow) # None =>
       LET K == Val(KeyOfLine(LogcatLineNow))
           N == OccurrenceNo(logcat_line_no)
       IN NewEvent.event_key =
            IF N = 1 THEN Some(EventKey(K, None)) ELSE Some(EventKey(K, Some(N)))]_vars

\* get_events_df returned three events of one key: the first with the key as
\* it is, the others with 'Occurrence 2' and 'Occurrence 3'.
C16_Witness ==
  /\ logcat_pc = "done" /\ Len(logcat_events_df) = 3
  /\ logcat_events_df[1].event_key # None
  /\ Val(logcat_events_df[1].event_key).occurrence = None
  /\ logcat_events_df[2].event_key =
       Some(EventKey(Val(logcat_events_df[1].event_key).key, Some(2)))
  /\ logcat_events_df[3].event_key =
       Some(EventKey(Val(logcat_events_df[1].event_key).key, Some(3)))

\* C17: the relative time of an event is its epoch milliseconds minus the
\* monitor start; the event is discarded, without a row and without an error,
\* exactly when that is < -600000, and kept with that relative time otherwise,
\* so no event of the table has a relative time below -600000.
C17_TimeWindow ==
  /\ [][AtLogcatLine /\ ShapeOf(LogcatLineNow) # "none" =>
          LET relative == RelativeOfLine(LogcatLineNow) IN
            /\ logcat_pc' = "parse" /\ logcat_line_no' = logcat_line_no + 1
            /\ IF relative < -600000 THEN NoEventAppended
               ELSE /\ EventAppended
                    /\ NewEvent.monitor_start_relative_millis = relative]_vars
  /\ [](\A i \in 1..Len(logcat_events_df) :
          logcat_events_df[i].monitor_start_relative_millis >= -600000)

\* get_events_df returned one event, of relative time -600000, for a logcat of
\* two lines.
C17_Witness ==
  /\ logcat_pc = "done" /\ Len(logcat) = 2 /\ Len(logcat_events_df) = 1
  /\ logcat_events_df[1].monitor_start_relative_millis = -600000

\* The line '... Displayed foo.bar for user 0: +1200ms'.
DisplayedExampleLine ==
  LogcatLine(Some("1970-01-02 00:00:01.500"), "ActivityTaskManager", "Displayed",
             "foo.bar", Some(0), None, Some(1200))

\* C18: the duration of the event of a task displayed line is the seconds of
\* the line times 1000 plus its milliseconds, absent seconds counting 0; the
\* line '... Displayed foo.bar for user 0: +1200ms' yields an event of
\* duration 1200 with the high latency flag set.
C18_DisplayedDuration ==
  [][AtLogcatLine /\ ShapeOf(LogcatLineNow) = "displayed" /\ EventAppended =>
       LET line == LogcatLineNow
           secs == IF line.duration_secs = None THEN 0 ELSE Val(line.duration_secs)
       IN /\ NewEvent.duration_value = Some(secs * 1000 + Val(line.duration_millis))
          /\ line = DisplayedExampleLine =>
               /\ NewEvent.duration_value = Some(1200)
               /\ NewEvent.is_high_latency_event = TRUE]_vars

\* get_events_df returned the events of '+1200ms' and of a line with 1 s and
\* 200 ms, both of duration 1200.
C18_Witness ==
  /\ logcat_pc = "done" /\ Len(logcat) = 2 /\ Len(logcat_events_df) = 2
  /\ logcat[1] = DisplayedExampleLine
  /\ logcat[2].duration_secs = Some(1) /\ logcat[2].duration_millis = Some(200)
  /\ logcat_events_df[1].duration_value = Some(1200)
  /\ logcat_events_df[2].duration_value = Some(1200)

\* C19: a task displayed event is high latency iff its duration >= 1000 ms; an
\* async timing complete event is high latency iff its duration >= 250 ms and
\* to be displayed iff its duration >= 50 ms; task start and async timing
\* start events are never high latency and always to be displayed.
C19_Thresholds ==
  \A i \in 1..Len(logcat_events_df) :
    LET event == logcat_events_df[i] IN
      /\ EventShapeOf(event) = "displayed" =>
           (event.is_high_latency_event <=> Val(event.duration_value) >= 1000)
      /\ EventShapeOf(event) = "complete" =>
           /\ event.is_high_latency_event <=> Val(event.duration_value) >= 250
           /\ event.should_plot <=> Val(event.duration_value) >= 50
      /\ EventShapeOf(event) \in {"start", "async"} =>
           ~event.is_high_latency_event /\ event.should_plot

\* The table has a displayed event of 1000 ms, high latency, and a complete
\* event of 50 ms, to be displayed and not high latency.
C19_Witness ==
  /\ Len(logcat_events_df) = 2
  /\ EventShapeOf(logcat_events_df[1]) = "displayed"
  /\ logcat_events_df[1].duration_value = Some(1000)
  /\ logcat_events_df[1].is_high_latency_event
  /\ EventShapeOf(logcat_events_df[2]) = "complete"
  /\ logcat_events_df[2].duration_value = Some(50)
  /\ logcat_events_df[2].should_plot /\ ~logcat_events_df[2].is_high_latency_event

----------------------------------------------------------------------------
(* generate_kpi_stats.py *)
(*                                                                         *)
(* A float is None for NaN, or Some of the exact rational in lowest terms. *)
(* Strings are ordered as Python orders them, through the list Collation   *)
(* of the strings of the tables below.  A column name with spaces has      *)
(* underscores in their place.  The standard deviation is kept as the      *)
(* rational it is the square root of.                                      *)

\* Most runs given to generate_kpi_stats.py.
MaxRuns == 3

RECURSIVE GCD(_, _)
GCD(a, b) == IF b = 0 THEN a ELSE GCD(b, a % b)

\* The rational n/d (d > 0) in lowest terms.
Norm(n, d) == LET g == GCD(IF n < 0 THEN -n ELSE n, d) IN Rat(n \div g, d \div g)

RatAdd(a, b) == Norm(a.num * b.den + b.num * a.den, a.den * b.den)
RatSub(a, b) == Norm(a.num * b.den - b.num * a.den, a.den * b.den)
RatMul(a, b) == Norm(a.num * b.num, a.den * b.den)
RatLess(a, b) == a.num * b.den < b.num * a.den

\* The strings of the tables, in the order of Python's string comparison.
Collation ==
  <<"1", "2", "3", "4", "5", "6", "7", "8", "9",
    "ActivityTaskManager", "Baseline calculation duration",
    "Displayed a/.Main for user 0", "Duration millis", "Duration seconds",
    "Max 'cpu:some' PSI value", "Percent", "logcat_event", "psi_event", "psi_monitor">>

StrLess(a, b) ==
  LET rank(s) == CHOOSE i \in 1..Len(Collation) : Collation[i] = s IN rank(a) < rank(b)

\* Line 75: a row of a kpis.csv as pd.read_csv gives it.
CsvRow(event, type, tag, value, unit) ==
  [Event |-> event, Type |-> type, Tag |-> tag, Value |-> value, Unit |-> unit]

\* The order of the join keys of line 19, the columns the two tables share:
\* Event, Type, Tag, Value, Unit, RunId; among the values NaN comes after
\* every number.
KeyLess(a, b) ==
  \/ StrLess(a.Event, b.Event)
  \/ /\ a.Event = b.Event
     /\ \/ StrLess(a.Type, b.Type)
        \/ /\ a.Type = b.Type
           /\ \/ StrLess(a.Tag, b.Tag)
              \/ /\ a.Tag = b.Tag
                 /\ \/ /\ a.Value # None
                       /\ IF b.Value = None THEN TRUE
                          ELSE RatLess(Val(a.Value), Val(b.Value))
                    \/ /\ a.Value = b.Value
                       /\ \/ StrLess(a.Unit, b.Unit)
                          \/ a.Unit = b.Unit /\ StrLess(a.RunId, b.RunId)

RemoveAt(s, i) == SubSeq(s, 1, i - 1) \o SubSeq(s, i + 1, Len(s))

RECURSIVE SortByKeys(_)
SortByKeys(df) ==
  IF df = <<>> THEN <<>>
  ELSE LET i == CHOOSE i \in 1..Len(df) :
                  /\ \A j \in 1..Len(df) : ~KeyLess(df[j], df[i])
                  /\ \A j \in 1..(i - 1) : KeyLess(df[i], df[j])
       IN <<df[i]>> \o SortByKeys(RemoveAt(df, i))

\* Fault variant of OuterMerge: a join with how='left', which keeps the rows of
\* the left table alone.
LeftMerge(left, right) == SortByKeys(left)

\* Line 19: pd.merge(merged_df, df, how='outer') joins on every shared column,
\* which is every column.  A row of one table equals no row of the other (the
\* run ids differ), so each row of either table is kept once; an outer join
\* puts the rows in the order of their keys.
OuterMerge(left, right) == SortByKeys(left \o right)

\* Fault variant of convert_millis_to_secs: every row in 'Duration millis' is
\* converted, whatever its Type.
convert_every_millis_to_secs(df) ==
  [i \in 1..Len(df) |->
     IF df[i].Unit = "Duration millis"
     THEN [df[i] EXCEPT !.Value = IF @ = None THEN None
                                  ELSE Some(RatMul(Val(@), Rat(1, 1000))),
                        !.Unit = "Duration seconds"]
     ELSE df[i]]

\* Lines 23-28.
convert_millis_to_secs(df) ==
  LET is_psi_millis(x) == x.Unit = "Duration millis" /\ x.Type = "psi_event"
      Div1000(value) ==
        IF value = None THEN None ELSE Some(RatMul(Val(value), Rat(1, 1000)))
      with_value == [i \in 1..Len(df) |->
                       IF is_psi_millis(df[i])
                       THEN [df[i] EXCEPT !.Value = Div1000(df[i].Value)] ELSE df[i]]
  IN [i \in 1..Len(df) |->
        IF is_psi_millis(with_value[i])
        THEN [with_value[i] EXCEPT !.Unit = "Duration seconds"] ELSE with_value[i]]

\* The numbers of a column, NaN left out, in ascending order.
RECURSIVE SortValues(_)
SortValues(s) ==
  IF s = <<>> THEN <<>>
  ELSE LET i == CHOOSE i \in 1..Len(s) : \A j \in 1..Len(s) : ~RatLess(s[j], s[i])
       IN <<s[i]>> \o SortValues(RemoveAt(s, i))

NonNa(kpi) == LET present == SelectSeq(kpi, LAMBDA v : v # None)
              IN [i \in 1..Len(present) |-> Val(present[i])]

\* Fault variant of Quantile: the value at the position at or below the
\* quantile's, with no interpolation.
QuantileLower(kpi, q) ==
  LET v == SortValues(NonNa(kpi))
      n == Len(v)
  IN IF n = 0 THEN None ELSE Some(v[((q.num * (n - 1)) \div q.den) + 1])

\* Lines 45, 46, 50: Series.quantile(q) and Series.median(): the value at the
\* position q * (n - 1) of the sorted numbers, interpolated linearly between
\* the two numbers next to a fractional position; NaN when there is no number.
Quantile(kpi, q) ==
  LET v == SortValues(NonNa(kpi))
      n == Len(v)
      p == q.num * (n - 1)
      lo == p \div q.den
      fraction == Rat(p % q.den, q.den)
  IN IF n = 0 THEN None
     ELSE IF fraction.num = 0 THEN Some(v[lo + 1])
     ELSE Some(RatAdd(v[lo + 1], RatMul(RatSub(v[lo + 2], v[lo + 1]), fraction)))

RECURSIVE SumOf(_)
SumOf(v) == IF v = <<>> THEN Rat(0, 1) ELSE RatAdd(v[1], SumOf(Tail(v)))

\* Fault variant of Std: the divisor is n, and one number has the deviation 0.
StdPopulation(kpi) ==
  LET v == NonNa(kpi)
      n == Len(v)
      mean == RatMul(SumOf(v), Rat(1, n))
      squares == [i \in 1..n |-> RatMul(RatSub(v[i], mean), RatSub(v[i], mean))]
  IN IF n < 1 THEN None ELSE Some([sqrt_of |-> RatMul(SumOf(squares), Rat(1, n))])

\* Line 50: Series.std(), with pandas' divisor n - 1: NaN for fewer than two
\* numbers.  The value is the square root of sqrt_of.
Std(kpi) ==
  LET v == NonNa(kpi)
      n == Len(v)
      mean == RatMul(SumOf(v), Rat(1, n))
      squares == [i \in 1..n |-> RatMul(RatSub(v[i], mean), RatSub(v[i], mean))]
  IN IF n < 2 THEN None ELSE Some([sqrt_of |-> RatMul(SumOf(squares), Rat(1, n - 1))])

Column(df, name) == [i \in 1..Len(df) |-> df[i][name]]

\* Lines 30-38.  The bounds are NaN when a quartile is, and a comparison with
\* NaN is False.
get_outliers(df, q1, q3) ==
  LET FloatLess(a, b) == a # None /\ b # None /\ RatLess(Val(a), Val(b))
      iqr == IF q1 = None \/ q3 = None THEN None ELSE Some(RatSub(Val(q3), Val(q1)))
      lower_bound == IF iqr = None THEN None
                     ELSE Some(RatSub(Val(q1), RatMul(Rat(3, 2), Val(iqr))))
      upper_bound == IF iqr = None THEN None
                     ELSE Some(RatAdd(Val(q3), RatMul(Rat(3, 2), Val(iqr))))
      low_outliers == SelectSeq(df, LAMBDA x : FloatLess(x.Value, lower_bound))
      high_outliers == SelectSeq(df, LAMBDA x : FloatLess(upper_bound, x.Value))
      outliers == SelectSeq(df, LAMBDA x : \/ FloatLess(x.Value, lower_bound)
                                           \/ FloatLess(upper_bound, x.Value))
  IN [low |-> Column(low_outliers, "RunId"), high |-> Column(high_outliers, "RunId"),
      outliers |-> Column(outliers, "Value")]

\* Line 43: the keys of groupby(['Event', 'Type', 'Unit']), in their order.
RECURSIVE SortNames(_)
SortNames(names) ==
  IF names = {} THEN <<>>
  ELSE LET NameLess(a, b) ==
             \/ StrLess(a[1], b[1])
             \/ /\ a[1] = b[1]
                /\ \/ StrLess(a[2], b[2])
                   \/ a[2] = b[2] /\ StrLess(a[3], b[3])
           name == CHOOSE a \in names : \A b \in names : ~NameLess(b, a)
       IN <<name>> \o SortNames(names \ {name})

GroupNames(df) == SortNames({<<df[i].Event, df[i].Type, df[i].Unit>> : i \in 1..Len(df)})

\* Line 43: the rows of a group, in the order of the table.
Group(df, name) ==
  SelectSeq(df, LAMBDA x : x.Event = name[1] /\ x.Type = name[2] /\ x.Unit = name[3])

\* Lines 44-51: the row of kpi_stats_df for a group; min() and max() leave NaN
\* out.
KpiStatsRow(name, group) ==
  LET kpi == Column(group, "Value")
      sorted == SortValues(NonNa(kpi))
      q1 == Quantile(kpi, Rat(1, 4))
      q3 == Quantile(kpi, Rat(3, 4))
      found == get_outliers(group, q1, q3)
  IN [Event |-> name[1], Type |-> name[2], Unit |-> name[3],
      Min |-> IF sorted = <<>> THEN None ELSE Some(sorted[1]),
      Max |-> IF sorted = <<>> THEN None ELSE Some(sorted[Len(sorted)]), Q1 |-> q1,
      Median |-> Quantile(kpi, Rat(1, 2)), Q3 |-> q3, Stddev |-> Std(kpi),
      Size |-> Len(kpi), Count_non_na |-> Len(NonNa(kpi)),
      Low_outlier_run_ids |-> found.low, High_outlier_run_ids |-> found.high,
      Outliers |-> found.outliers]

\* Lines 14-19: one turn of the loop of merge_dfs.
MergeDfsRun ==
  /\ stats_pc = "merge_dfs"
  /\ run_no <= Len(kpi_dfs_dict)
  /\ LET run_id == kpi_dfs_dict[run_no].run_id
         read == kpi_dfs_dict[run_no].df
         df == [i \in 1..Len(read) |-> [RunId |-> run_id] @@ read[i]]
     IN /\ kpi_dfs_dict' = [kpi_dfs_dict EXCEPT ![run_no].df = df]
        /\ merged_df' = IF merged_df = None THEN Some(df)
                        ELSE Some(OuterMerge(Val(merged_df), df))
  /\ run_no' = run_no + 1
  /\ UNCHANGED <<kpi_stats_df, group_no, stats_pc>>
  /\ UNCHANGED <<kpi_vars, dump_vars, logcat_vars>>

\* Line 20: reset_index() keeps the old index 0, 1, ... as the column 'index'.
MergeDfsReturn ==
  /\ stats_pc = "merge_dfs"
  /\ run_no > Len(kpi_dfs_dict)
  /\ merged_df' = IF merged_df = None THEN None
                  ELSE Some([i \in 1..Len(Val(merged_df)) |->
                               [index |-> i - 1] @@ Val(merged_df)[i]])
  /\ stats_pc' = "main"
  /\ UNCHANGED <<kpi_dfs_dict, run_no, kpi_stats_df, group_no>>
  /\ UNCHANGED <<kpi_vars, dump_vars, logcat_vars>>

\* Fault variant of IsNoneOrEmpty: the test for None alone.
IsNoneOnly(df) == df = None

\* Line 78: merged_df is None or merged_df.empty.
IsNoneOrEmpty(df) == IF df = None THEN TRUE ELSE Val(df) = <<>>

\* Lines 78-79: main raises the ValueError.
MainRaise ==
  /\ stats_pc = "main"
  /\ IsNoneOrEmpty(merged_df)
  /\ stats_pc' = "error"
  /\ UNCHANGED <<kpi_dfs_dict, merged_df, run_no, kpi_stats_df, group_no>>
  /\ UNCHANGED <<kpi_vars, dump_vars, logcat_vars>>

\* Lines 80, 42: the conversion of the merged table, and the empty kpi_stats_df.
ConvertMillisToSecs ==
  /\ stats_pc = "main"
  /\ ~IsNoneOrEmpty(merged_df)
  /\ merged_df' = Some(convert_millis_to_secs(Val(merged_df)))
  /\ kpi_stats_df' = <<>>
  /\ group_no' = 1
  /\ stats_pc' = "get_kpi_stats_df"
  /\ UNCHANGED <<kpi_dfs_dict, run_no>>
  /\ UNCHANGED <<kpi_vars, dump_vars, logcat_vars>>

\* Lines 43-51: one turn of the loop of get_kpi_stats_df.
GetKpiStatsDfGroup ==
  /\ stats_pc = "get_kpi_stats_df"
  /\ group_no <= Len(GroupNames(Val(merged_df)))
  /\ LET name == GroupNames(Val(merged_df))[group_no]
     IN kpi_stats_df' = Append(kpi_stats_df, KpiStatsRow(name, Group(Val(merged_df), name)))
  /\ group_no' = group_no + 1
  /\ UNCHANGED <<kpi_dfs_dict, merged_df, run_no, stats_pc>>
  /\ UNCHANGED <<kpi_vars, dump_vars, logcat_vars>>

\* Lines 52, 81: get_kpi_stats_df returns and main writes the table.
GetKpiStatsDfReturn ==
  /\ stats_pc = "get_kpi_stats_df"
  /\ group_no > Len(GroupNames(Val(merged_df)))
  /\ stats_pc' = "done"
  /\ UNCHANGED <<kpi_dfs_dict, merged_df, run_no, kpi_stats_df, group_no>>
  /\ UNCHANGED <<kpi_vars, dump_vars, logcat_vars>>

MaxPsiValueRow(value) ==
  CsvRow("Max 'cpu:some' PSI value", PSI_EVENT_TYPE, PSI_MONITOR_TAG, Some(Rat(value, 1)),
         "Percent")

\* The kpis.csv of a run: with no row; with a KPI of value 10 or 100; with the
\* KPI twice; with a PSI duration in milliseconds, or the same in seconds, next
\* to a logcat duration in milliseconds; with a logcat duration that is empty.
RunTables ==
  {<<>>,
   <<MaxPsiValueRow(10)>>,
   <<MaxPsiValueRow(100)>>,
   <<MaxPsiValueRow(100), MaxPsiValueRow(10)>>,
   <<MaxPsiValueRow(10),
     CsvRow("Baseline calculation duration", PSI_EVENT_TYPE, PSI_MONITOR_TAG,
            Some(Rat(1200, 1)), "Duration millis")>>,
   <<CsvRow("Displayed a/.Main for user 0", LOGCAT_EVENT_TYPE, "ActivityTaskManager",
            Some(Rat(262, 1)), "Duration millis"),
     CsvRow("Baseline calculation duration", PSI_EVENT_TYPE, PSI_MONITOR_TAG,
            Some(Rat(6, 5)), "Duration seconds")>>,
   <<CsvRow("Displayed a/.Main for user 0", LOGCAT_EVENT_TYPE, "ActivityTaskManager",
            None, "Duration millis"),
     MaxPsiValueRow(100)>>}

\* Lines 71-75: the tables of the runs, in the order of the files run_1,
\* run_2, ...
InitStats ==
  /\ \E n \in 0..MaxRuns : \E tables \in [1..n -> RunTables] :
       kpi_dfs_dict =
         [i \in 1..n |->
            [run_id |-> <<"1", "2", "3", "4", "5", "6", "7", "8", "9">>[i],
             df |-> tables[i]]]
  /\ merged_df = None
  /\ run_no = 1
  /\ kpi_stats_df = <<>>
  /\ group_no = 1
  /\ stats_pc = "merge_dfs"
  /\ KpiIdle
  /\ DumpIdle
  /\ LogcatIdle

NextStats ==
  \/ MergeDfsRun
  \/ MergeDfsReturn
  \/ MainRaise
  \/ ConvertMillisToSecs
  \/ GetKpiStatsDfGroup
  \/ GetKpiStatsDfReturn

SpecStats == InitStats /\ [][NextStats]_vars

----------------------------------------------------------------------------
(* Properties of generate_kpi_stats.py *)

\* Three runs, each with one row of the same KPI, of the values 10, 10 and 100
\* in some order.
ExampleRuns ==
  /\ Len(kpi_dfs_dict) = 3
  /\ \A i \in 1..3 : /\ Len(kpi_dfs_dict[i].df) = 1
                     /\ kpi_dfs_dict[i].df[1].Event = kpi_dfs_dict[1].df[1].Event
                     /\ kpi_dfs_dict[i].df[1].Type = kpi_dfs_dict[1].df[1].Type
                     /\ kpi_dfs_dict[i].df[1].Unit = kpi_dfs_dict[1].df[1].Unit
  /\ \E i \in 1..3 : /\ kpi_dfs_dict[i].df[1].Value = Some(Rat(100, 1))
                     /\ \A j \in (1..3) \ {i} :
                          kpi_dfs_dict[j].df[1].Value = Some(Rat(10, 1))

\* The run id of the run that contributes 100.
RunOf100 ==
  kpi_dfs_dict[CHOOSE i \in 1..3 : kpi_dfs_dict[i].df[1].Value = Some(Rat(100, 1))].run_id

ElementsOf(s) == {s[i] : i \in 1..Len(s)}

\* C20, as stated: once the statistics of three runs with the values 10, 10 and
\* 100 in one group are computed, the run that contributes 100 is among the
\* high outlier run ids of the group's row.
C20_RunOf100IsHighOutlier ==
  (stats_pc = "done" /\ ExampleRuns)
    => RunOf100 \in ElementsOf(kpi_stats_df[1].High_outlier_run_ids)

\* v > q3 + 1.5 * (q3 - q1), that is 2 v > 5 q3 - 3 q1, on the numerators and
\* denominators of the three numbers.
AboveUpperFence(v, q1, q3) ==
  2 * v.num * q1.den * q3.den > (5 * q3.num * q1.den - 3 * q1.num * q3.den) * v.den

\* v < q1 - 1.5 * (q3 - q1), that is 2 v < 5 q1 - 3 q3.
BelowLowerFence(v, q1, q3) ==
  2 * v.num * q1.den * q3.den < (5 * q1.num * q3.den - 3 * q3.num * q1.den) * v.den

\* The rows of the merged table that a row of the statistics is about.
GroupOfStatsRow(row) == Group(Val(merged_df), <<row.Event, row.Type, row.Unit>>)

\* C20, amended: in every row of the statistics the high outlier run ids are
\* the run ids of the group's rows whose value is above Q3 + 1.5 * (Q3 - Q1),
\* the low outlier run ids those of the rows whose value is below
\* Q1 - 1.5 * (Q3 - Q1), for the Q1 and Q3 of the row, and the outliers are the
\* values of both; and for three runs with the values 10, 10 and 100 in one
\* group the row has Q1 = 10 and Q3 = 55, the quartiles interpolated linearly,
\* so that the fences are -57.5 and 122.5 and no run is an outlier: the two
\* lists of run ids and the list of outliers are empty.
C20_OutliersBeyondFences ==
  /\ \A k \in 1..Len(kpi_stats_df) :
       LET row == kpi_stats_df[k]
           above(x) == /\ x.Value # None /\ row.Q1 # None /\ row.Q3 # None
                       /\ AboveUpperFence(Val(x.Value), Val(row.Q1), Val(row.Q3))
           below(x) == /\ x.Value # None /\ row.Q1 # None /\ row.Q3 # None
                       /\ BelowLowerFence(Val(x.Value), Val(row.Q1), Val(row.Q3))
           either(x) == above(x) \/ below(x)
       IN /\ row.High_outlier_run_ids = Column(SelectSeq(GroupOfStatsRow(row), above), "RunId")
          /\ row.Low_outlier_run_ids = Column(SelectSeq(GroupOfStatsRow(row), below), "RunId")
          /\ row.Outliers = Column(SelectSeq(GroupOfStatsRow(row), either), "Value")
  /\ (ExampleRuns /\ kpi_stats_df # <<>>)
       => /\ kpi_stats_df[1].Q1 = Some(Rat(10, 1))
          /\ kpi_stats_df[1].Q3 = Some(Rat(55, 1))
          /\ kpi_stats_df[1].High_outlier_run_ids = <<>>
          /\ kpi_stats_df[1].Low_outlier_run_ids = <<>>
          /\ kpi_stats_df[1].Outliers = <<>>

\* The statistics of three runs with the values 10, 10 and 100 are written:
\* one row, of the three values, with no outlier.
C20_Witness ==
  /\ stats_pc = "done"
  /\ ExampleRuns
  /\ Len(kpi_stats_df) = 1
  /\ kpi_stats_df[1].Size = 3
  /\ kpi_stats_df[1].Min = Some(Rat(10, 1))
  /\ kpi_stats_df[1].Max = Some(Rat(100, 1))
  /\ kpi_stats_df[1].High_outlier_run_ids = <<>>

\* The numbers of the group a row of the statistics is about.
NumbersOfStatsRow(row) == NonNa(Column(GroupOfStatsRow(row), "Value"))

\* The sum of the squared deviations of numbers from their mean, as the sum of
\* the squares less the square of the sum over their count.
SquaredDeviations(v) ==
  LET sum == SumOf(v)
      squares == SumOf([i \in 1..Len(v) |-> RatMul(v[i], v[i])])
  IN RatSub(squares, RatMul(RatMul(sum, sum), Rat(1, Len(v))))

\* C21, as stated: the Stddev of every row of the statistics is the population
\* standard deviation of the group's numbers, its square their squared
\* deviations over their count n, which is 0 for a group of one number.
C21_StddevIsPopulation ==
  \A k \in 1..Len(kpi_stats_df) :
    LET row == kpi_stats_df[k]
        v == NumbersOfStatsRow(row)
    IN Len(v) >= 1
         => /\ row.Stddev # None
            /\ RatMul(Val(row.Stddev).sqrt_of, Rat(Len(v), 1)) = SquaredDeviations(v)
            /\ (Len(v) = 1 => Val(row.Stddev).sqrt_of = Rat(0, 1))

\* C21, amended: the Stddev of every row of the statistics is the sample
\* standard deviation of the group's numbers, its square their squared
\* deviations over n - 1 for their count n; for a group of fewer than two
\* numbers, so for a group of one value, it is NaN and not 0.
C21_StddevIsSample ==
  \A k \in 1..Len(kpi_stats_df) :
    LET row == kpi_stats_df[k]
        v == NumbersOfStatsRow(row)
    IN IF Len(v) < 2 THEN row.Stddev = None
       ELSE /\ row.Stddev # None
            /\ RatMul(Val(row.Stddev).sqrt_of, Rat(Len(v) - 1, 1)) = SquaredDeviations(v)

\* The statistics are written with a row of one value, whose Stddev is NaN, and
\* a row of the two values 10 and 100, whose Stddev is the root of 4050.
C21_Witness ==
  /\ stats_pc = "done"
  /\ \E k \in 1..Len(kpi_stats_df) :
       kpi_stats_df[k].Count_non_na = 1 /\ kpi_stats_df[k].Stddev = None
  /\ \E k \in 1..Len(kpi_stats_df) :
       /\ kpi_stats_df[k].Count_non_na = 2
       /\ kpi_stats_df[k].Min = Some(Rat(10, 1))
       /\ kpi_stats_df[k].Max = Some(Rat(100, 1))
       /\ kpi_stats_df[k].Stddev = Some([sqrt_of |-> Rat(4050, 1)])

\* A row without its columns RunId and index.
KpiColumns(x) ==
  [Event |-> x.Event, Type |-> x.Type, Tag |-> x.Tag, Value |-> x.Value, Unit |-> x.Unit]

\* A row of the merged table without its column index.
MergedColumns(x) == [RunId |-> x.RunId] @@ KpiColumns(x)

\* merge_dfs has returned a table, which main has not converted yet.
Merged == stats_pc = "main" /\ merged_df # None

\* C22: the table merge_dfs returns has the rows of every run, each as often as
\* the run's table has it and with the run's id as its RunId, and no other
\* row: every row of the merged table is a row of the table of its RunId, the
\* tables of the runs are the tables read with the run's id in the column
\* RunId, and the merged table has as many rows as the tables of the runs
\* together.
C22_MergeIsTaggedUnion ==
  Merged =>
    /\ \A i \in 1..Len(kpi_dfs_dict) :
         LET run == kpi_dfs_dict[i]
         IN /\ [j \in 1..Len(run.df) |-> KpiColumns(run.df[j])] \in RunTables
            /\ \A j \in 1..Len(run.df) :
                 /\ run.df[j].RunId = run.run_id
                 /\ Cardinality({k \in 1..Len(Val(merged_df)) :
                                   MergedColumns(Val(merged_df)[k]) = run.df[j]})
                    = Cardinality({l \in 1..Len(run.df) : run.df[l] = run.df[j]})
    /\ \A k \in 1..Len(Val(merged_df)) :
         \E i \in 1..Len(kpi_dfs_dict) :
           /\ kpi_dfs_dict[i].run_id = Val(merged_df)[k].RunId
           /\ \E j \in 1..Len(kpi_dfs_dict[i].df) :
                kpi_dfs_dict[i].df[j] = MergedColumns(Val(merged_df)[k])
    /\ Len(Val(merged_df))
       = Cardinality(UNION {{<<i, j>> : j \in 1..Len(kpi_dfs_dict[i].df)} :
                              i \in 1..Len(kpi_dfs_dict)})

\* merge_dfs has returned the table of three runs with rows, of which one has
\* two rows: four rows or more, with the three run ids.
C22_Witness ==
  /\ Merged
  /\ Len(kpi_dfs_dict) = 3
  /\ \A i \in 1..3 : kpi_dfs_dict[i].df # <<>>
  /\ Len(Val(merged_df)) >= 4
  /\ {Val(merged_df)[k].RunId : k \in 1..Len(Val(merged_df))} = {"1", "2", "3"}

\* No run contributes a row: there is no run, or the table of every run is
\* empty.
NoRunHasRows == \A i \in 1..Len(kpi_dfs_dict) : kpi_dfs_dict[i].df = <<>>

\* C23: when no run contributes a row, with no run as with runs of empty
\* tables, generate_kpi_stats.py ends, once merge_dfs has returned and main has
\* tested its result, with the error, and no row of statistics is ever
\* computed nor the table written.
C23_NoRowsRaises ==
  NoRunHasRows =>
    /\ stats_pc \in {"merge_dfs", "main", "error"}
    /\ kpi_stats_df = <<>>

\* The error is raised for two runs or more, each of an empty table.
C23_Witness ==
  /\ stats_pc = "error"
  /\ Len(kpi_dfs_dict) >= 2
  /\ NoRunHasRows
  /\ merged_df = Some(<<>>)

\* main converts the merged table: line 80.
Converting == stats_pc = "main" /\ stats_pc' = "get_kpi_stats_df"

\* The float b is the float a over 1000: NaN for NaN.
IsOver1000(a, b) ==
  IF a = None THEN b = None
  ELSE b # None /\ Val(b).num * Val(a).den * 1000 = Val(a).num * Val(b).den

\* C24: the conversion leaves the table with the same rows in the same order,
\* of which those with Unit 'Duration millis' and Type 'psi_event' have their
\* Value over 1000 and the Unit 'Duration seconds' and are otherwise as
\* before, and every other row, so every row of Type 'logcat_event', is as
\* before; and converting the converted table changes nothing.
C24_ConversionFrame ==
  [][Converting =>
       LET before == Val(merged_df)
           after == Val(merged_df')
       IN /\ Len(after) = Len(before)
          /\ \A k \in 1..Len(before) :
               IF before[k].Unit = "Duration millis" /\ before[k].Type = "psi_event"
               THEN /\ IsOver1000(before[k].Value, after[k].Value)
                    /\ after[k].Unit = "Duration seconds"
                    /\ after[k] = [before[k] EXCEPT !.Value = after[k].Value,
                                                    !.Unit = after[k].Unit]
               ELSE after[k] = before[k]
          /\ convert_millis_to_secs(after) = after]_vars

\* A table is converted in which a run has a PSI duration of 1200 ms and a run
\* a logcat duration of 262 ms: the first is 1.2 s now, the second as it was.
C24_Witness ==
  /\ stats_pc = "get_kpi_stats_df"
  /\ \E i \in 1..Len(kpi_dfs_dict) : \E j \in 1..Len(kpi_dfs_dict[i].df) :
       /\ kpi_dfs_dict[i].df[j].Unit = "Duration millis"
       /\ kpi_dfs_dict[i].df[j].Type = "psi_event"
       /\ kpi_dfs_dict[i].df[j].Value = Some(Rat(1200, 1))
       /\ \E k \in 1..Len(Val(merged_df)) :
            /\ Val(merged_df)[k].RunId = kpi_dfs_dict[i].run_id
            /\ Val(merged_df)[k].Event = kpi_dfs_dict[i].df[j].Event
            /\ Val(merged_df)[k].Unit = "Duration seconds"
            /\ Val(merged_df)[k].Value = Some(Rat(6, 5))
  /\ \E k \in 1..Len(Val(merged_df)) :
       /\ Val(merged_df)[k].Type = "logcat_event"
       /\ Val(merged_df)[k].Unit = "Duration millis"
       /\ Val(merged_df)[k].Value = Some(Rat(262, 1))

----------------------------------------------------------------------------
(* Properties of the KPIs: order, maxima, exposure, baseline window *)

\* C25, as stated: whenever KPI rows are emitted the four recorded times are in
\* the order CUJ completed <= exceeded < dropped below <= baseline reached.
C25_StrictOrderEndToEnd ==
  Emitting =>
    /\ AllRecorded(psi_kpi)
    /\ Val(psi_kpi.cuj_completed_millis) <= Val(psi_kpi.exceeded_threshold_millis)
    /\ Val(psi_kpi.exceeded_threshold_millis) < Val(psi_kpi.dropped_below_threshold_millis)
    /\ Val(psi_kpi.dropped_below_threshold_millis) <= Val(psi_kpi.reached_baseline_millis)

\* C25, amended: whenever KPI rows are emitted the recorded times satisfy CUJ
\* completed <= exceeded < dropped below and CUJ completed <= baseline
\* reached, and no more: the baseline may be reached before the threshold is
\* dropped below, which is the case exactly when the first annotation of the
\* baseline is on a row of an earlier time than the first annotation of the
\* drop.
C25_OrderUpToBaseline ==
  Emitting =>
    /\ AllRecorded(psi_kpi)
    /\ Val(psi_kpi.cuj_completed_millis) <= Val(psi_kpi.exceeded_threshold_millis)
    /\ Val(psi_kpi.exceeded_threshold_millis) < Val(psi_kpi.dropped_below_threshold_millis)
    /\ Val(psi_kpi.cuj_completed_millis) <= Val(psi_kpi.reached_baseline_millis)
    /\ (Val(psi_kpi.reached_baseline_millis) < Val(psi_kpi.dropped_below_threshold_millis))
         = (MillisAt(FirstMatching(IsBaseline)) < MillisAt(FirstMatching(IsDropped)))

\* All rows are emitted for a run that reached the baseline before it dropped
\* below the threshold.
C25_Witness ==
  /\ pc = "done" /\ Len(kpi_df) >= 11
  /\ AllRecorded(psi_kpi)
  /\ Val(psi_kpi.reached_baseline_millis) < Val(psi_kpi.dropped_below_threshold_millis)

\* C26: whenever KPI rows are emitted, the maximum after the drop below the
\* threshold is the largest monitored value of the rows from the row on which
\* the drop was recorded through the last row of the table, with or without
\* annotations.
C26_PostDropMaxOverEveryRow ==
  Emitting =>
    psi_kpi.max_psi_value_after_dropped_below_threshold =
      MaxOf(SubSeq(PsiColumn(psi_df), FirstMatching(IsDropped)[1], Len(psi_df)))

\* The rows whose polling interval has been accumulated: the rows the loop
\* has finished and the row it is in.
AccumulatedRows ==
  IF pc \in {"event", "error"} /\ index < Len(psi_df) THEN index + 1 ELSE index

\* The time, over the pairs of adjacent rows up to row n, between the rows of
\* the pairs that have the monitored value at or above the band on either row.
RECURSIVE ExposureOfPairs(_, _)
ExposureOfPairs(band, n) ==
  IF n < 2 THEN 0
  ELSE ExposureOfPairs(band, n - 1) +
       (IF psi_df[n - 1].cpu_some_avg10 >= band \/ psi_df[n].cpu_some_avg10 >= band
        THEN psi_df[n].monitor_start_relative_millis
               - psi_df[n - 1].monitor_start_relative_millis
        ELSE 0)

\* C27: for a table whose first row is at relative time 0, the exposure
\* accumulated for each of the bands 80, 50 and 30 is, at every point of the
\* scan and after it, the sum of the time differences of the adjacent row
\* pairs, among the rows taken so far, that have the monitored value at or
\* above the band on either row: the first row adds nothing and the milestones
\* recorded play no part.
C27_ExposureIsSumOverPairs ==
  (psi_df # <<>> /\ psi_df[1].monitor_start_relative_millis = 0) =>
    /\ psi_kpi.total_duration_above_80p_threshold_millis = ExposureOfPairs(80, AccumulatedRows)
    /\ psi_kpi.total_duration_above_50p_threshold_millis = ExposureOfPairs(50, AccumulatedRows)
    /\ psi_kpi.total_duration_above_30p_threshold_millis = ExposureOfPairs(30, AccumulatedRows)

\* A scanned table that starts at time 0 and has a pair of rows 500 ms apart
\* in the band of 80 by its first row alone, and one by its second row alone;
\* the three bands differ.
C27_Witness ==
  /\ pc = "done"
  /\ psi_df[1].monitor_start_relative_millis = 0
  /\ \E i, j \in 2..Len(psi_df) :
       /\ psi_df[i - 1].cpu_some_avg10 >= 80 /\ psi_df[i].cpu_some_avg10 < 80
       /\ psi_df[j - 1].cpu_some_avg10 < 80 /\ psi_df[j].cpu_some_avg10 >= 80
       /\ psi_df[i].monitor_start_relative_millis
            > psi_df[i - 1].monitor_start_relative_millis
       /\ psi_df[j].monitor_start_relative_millis
            > psi_df[j - 1].monitor_start_relative_millis
  /\ psi_kpi.total_duration_above_80p_threshold_millis
       < psi_kpi.total_duration_above_50p_threshold_millis
  /\ psi_kpi.total_duration_above_50p_threshold_millis
       < psi_kpi.total_duration_above_30p_threshold_millis

\* The row (from 0, as the index of the table) and the captured count of the
\* annotation the baseline was recorded from.
BaselineRow == FirstMatching(IsBaseline)[1] - 1
BaselineCount ==
  Val(PSI_REACHED_BASELINE_RE(DescriptionAt(FirstMatching(IsBaseline))).latest_psi_entries)

\* C28: once the baseline is recorded with its window, from an annotation on
\* row i with a count N <= i, the duration of the window is the relative time
\* of row i minus that of row i - N and the count kept is N; with N = 0 the
\* duration is 0 and no KPI row is ever emitted for the run.
C28_BaselineWindowDuration ==
  psi_kpi.reached_baseline_total_duration_millis # None =>
    /\ BaselineCount <= BaselineRow
    /\ psi_kpi.reached_baseline_latest_psi_entries = Some(BaselineCount)
    /\ Val(psi_kpi.reached_baseline_total_duration_millis) =
         psi_df[BaselineRow + 1].monitor_start_relative_millis
           - psi_df[BaselineRow - BaselineCount + 1].monitor_start_relative_millis
    /\ BaselineCount = 0 =>
         /\ Val(psi_kpi.reached_baseline_total_duration_millis) = 0
         /\ ~Emitting
         /\ pc = "populate_kpi_df" => CheckValid(psi_kpi) # ""

\* A run is emitted whose baseline is across the latest 2 entries, the window
\* being shorter than the time of the last two polling intervals.
C28_Witness ==
  /\ pc = "done"
  /\ psi_kpi.reached_baseline_total_duration_millis # None
  /\ BaselineCount = 2
  /\ Val(psi_kpi.reached_baseline_total_duration_millis) = 200
  /\ psi_df[BaselineRow + 1].monitor_start_relative_millis
       - psi_df[BaselineRow].monitor_start_relative_millis = 100

\* A run with the baseline across the latest 0 entries fails validation.
C28_ZeroWindowRejected ==
  /\ pc = "error"
  /\ psi_kpi.reached_baseline_total_duration_millis = Some(0)
  /\ BaselineCount = 0
  /\ AllRecorded(psi_kpi)

----------------------------------------------------------------------------
(* Properties of the occurrence counter of LogcatParser *)

\* C29, as stated: the event of the Nth line (N >= 2) with a dedup key has, as
\* its description, a text followed by ': Occurrence N'.
C29_DescriptionSuffixed ==
  [][AtLogcatLine /\ EventAppended /\ KeyOfLine(LogcatLineNow) # None
       /\ OccurrenceNo(logcat_line_no) >= 2 =>
       /\ DOMAIN NewEvent.event_description = {"key", "occurrence"}
       /\ NewEvent.event_description.occurrence = Some(OccurrenceNo(logcat_line_no))]_vars

\* C29, amended: on the Nth line (N >= 2) with the dedup key K the counter of
\* K goes from N - 1 to N, whether the line yields an event or is discarded,
\* and the event it yields has the number N of the counter after the
\* increment after its key, and a description with nothing after it: the text
\* of its shape with the name and the duration of the line.
C29_KeySuffixedDescriptionKept ==
  [][AtLogcatLine /\ KeyOfLine(LogcatLineNow) # None
       /\ OccurrenceNo(logcat_line_no) >= 2 =>
       LET K == Val(KeyOfLine(LogcatLineNow))
           N == OccurrenceNo(logcat_line_no)
       IN /\ event_counts_dict[K] = N - 1
          /\ event_counts_dict'[K] = N
          /\ EventAppended =>
               /\ Val(NewEvent.event_key).occurrence = Some(N)
               /\ DOMAIN NewEvent.event_description =
                    {"text", "name", "user_id", "duration_millis"}
               /\ NewEvent.event_description.text \in
                    {"Displayed {} for user {} took {}ms", "SystemServer event {} took {}ms"}
               /\ NewEvent.event_description.name = LogcatLineNow.name
               /\ NewEvent.event_description.duration_millis = NewEvent.duration_value]_vars

\* get_events_df returned two events for two lines of one key: the counter of
\* the key is at 2, the second event has 'Occurrence 2' after its key, and
\* the descriptions of the two events are the same text.
C29_Witness ==
  /\ logcat_pc = "done" /\ Len(logcat) = 2 /\ Len(logcat_events_df) = 2
  /\ KeyOfLine(logcat[1]) # None /\ KeyOfLine(logcat[2]) = KeyOfLine(logcat[1])
  /\ event_counts_dict[Val(KeyOfLine(logcat[1]))] = 2
  /\ Val(logcat_events_df[2].event_key).occurrence = Some(2)
  /\ logcat_events_df[2].event_description = logcat_events_df[1].event_description
  /\ logcat_events_df[2].event_description.text = "SystemServer event {} took {}ms"

\* C30: every call of get_events_df starts with no occurrence recorded, and
\* the calls on one LogcatParser, which parse the same logcat, return the same
\* table, with the key of the first event of each key as it is.
C30_EveryCallStartsAfresh ==
  /\ (logcat_pc = "parse" /\ logcat_line_no = 1) => DOMAIN event_counts_dict = {}
  /\ \A i \in 1..Len(returned_events_df) :
       /\ returned_events_df[i] = returned_events_df[1]
       /\ \A e \in 1..Len(returned_events_df[i]) :
            LET table == returned_events_df[i]
                same == {f \in 1..e : table[f].event_key # None
                                       /\ Val(table[f].event_key).key = Val(table[e].event_key).key}
            IN (table[e].event_key # None /\ same = {e} /\ Len(table) = Len(logcat))
                 => Val(table[e].event_key).occurrence = None

\* The events of the table so far, up to the e-th, that have the key of the
\* e-th before what was put after it.
EmittedOfKey(e) ==
  {f \in 1..e : /\ logcat_events_df[f].event_key # None
                /\ Val(logcat_events_df[f].event_key).key
                     = Val(logcat_events_df[e].event_key).key}

\* C31: a line discarded for its time leaves the counters as they were, so
\* the counter of a key is the number of events emitted with it, and among
\* the events emitted with one key the first has the key as it is and the
\* k-th (k >= 2) has ': Occurrence k' after it.
C31_EmittedNumberingGapFree ==
  \A e \in 1..Len(logcat_events_df) :
    logcat_events_df[e].event_key # None =>
      LET k == Cardinality(EmittedOfKey(e))
          K == Val(logcat_events_df[e].event_key).key
          last == \A f \in (e + 1)..Len(logcat_events_df) :
                    IF logcat_events_df[f].event_key = None THEN TRUE
                    ELSE Val(logcat_events_df[f].event_key).key # K
      IN /\ Val(logcat_events_df[e].event_key).occurrence = IF k = 1 THEN None ELSE Some(k)
         /\ last => event_counts_dict[K] = k

\* get_events_df returned one event for two lines of one key, the first of
\* them discarded for its time: the only event emitted has 'Occurrence 2'.
C31_FirstEmittedIsSuffixed ==
  /\ logcat_pc = "done" /\ Len(logcat) = 2 /\ Len(logcat_events_df) = 1
  /\ KeyOfLine(logcat[1]) # None /\ KeyOfLine(logcat[2]) = KeyOfLine(logcat[1])
  /\ logcat[1].local_datetime = Some("1970-01-01 23:49:59.999")
  /\ logcat_monitor_start_epoch_millis = 86400000
  /\ logcat_events_df[1].event_key # None
  /\ Val(logcat_events_df[1].event_key).occurrence = Some(2)

----------------------------------------------------------------------------
(* Properties of the KPI rows *)

\* C32: each of the eleven rows populate_kpi_df has put in the KPI table, the
\* first eleven of the table, has the Type 'psi_event' and the Tag
\* 'psi_monitor'.
C32_KpiRowsTypeAndTag ==
  \A j \in 1..Len(kpi_df) :
    j <= 11 => kpi_df[j].Type = "psi_event" /\ kpi_df[j].Tag = "psi_monitor"

----------------------------------------------------------------------------
(* Properties of the exposure accumulators *)

\* The relative times of the table start at 0 and never go back.
StartsAtZeroNonDecreasing ==
  /\ psi_df # <<>>
  /\ psi_df[1].monitor_start_relative_millis = 0
  /\ \A i \in 2..Len(psi_df) :
       psi_df[i - 1].monitor_start_relative_millis <= psi_df[i].monitor_start_relative_millis

\* C33: for a table whose relative times start at 0 and are non-decreasing,
\* at every point of the scan and after it, 0 <= the exposure of the band 80
\* <= that of the band 50 <= that of the band 30 <= the relative time of the
\* last row taken (0 before the first).
C33_ExposuresOrderedAndBounded ==
  StartsAtZeroNonDecreasing =>
    /\ 0 <= psi_kpi.total_duration_above_80p_threshold_millis
    /\ psi_kpi.total_duration_above_80p_threshold_millis
         <= psi_kpi.total_duration_above_50p_threshold_millis
    /\ psi_kpi.total_duration_above_50p_threshold_millis
         <= psi_kpi.total_duration_above_30p_threshold_millis
    /\ psi_kpi.total_duration_above_30p_threshold_millis
         <= (IF AccumulatedRows = 0 THEN 0
             ELSE psi_df[AccumulatedRows].monitor_start_relative_millis)

\* The scan is in a row, not the last, of a table that starts at 0: the band
\* 30 has had all the time up to the row, the band 50 less, and the band 80
\* less again but some.
C33_Witness ==
  /\ StartsAtZeroNonDecreasing
  /\ pc = "event" /\ AccumulatedRows < Len(psi_df)
  /\ 0 < psi_kpi.total_duration_above_80p_threshold_millis
  /\ psi_kpi.total_duration_above_80p_threshold_millis
       < psi_kpi.total_duration_above_50p_threshold_millis
  /\ psi_kpi.total_duration_above_50p_threshold_millis
       < psi_kpi.total_duration_above_30p_threshold_millis
  /\ psi_kpi.total_duration_above_30p_threshold_millis
       = psi_df[AccumulatedRows].monitor_start_relative_millis

====
